---- MODULE Spec2Model ----
(***************************************************************************)
(* Model of the agent service: the MCP backend pool (pkg/blaxel),          *)
(* the tool manager and the agent loop (pkg/agent) and the run-agent       *)
(* handler (pkg/router) that drives them.                                  *)
(***************************************************************************)
EXTENDS Integers, Sequences, FiniteSets, TLC

VARIABLES
    pc,             \* position of the process: startup, serving, listing, model, model_wait,
                    \* tools, tool_wait, done (registry: a ToolManager on its own)
    cfgIdx,         \* NewClient: index of the next server config to register
    servers,        \* MCPManager.servers: server name -> connection id
    nextConn,       \* identity of the next connection NewMCPClient opens
    addLog,         \* NewClient: the AddServer calls made so far, [name, opened, conn]
    reqBody,        \* the request body the handler received
    reqPath,        \* c.Request.URL.Path of the request ("": none yet)
    reqMaxIter,     \* request.MaxIterations as bound from the request body
    reqModel,       \* request.Model as bound from the request body ("" when absent)
    catalogs,       \* the catalogs passed to ConvertMCPToolsToOpenAI so far, in order
    listing,        \* ListAllTools: what each server visited so far answered to ListTools
    listOrder,      \* ListAllTools while it runs: the servers its range has visited, in order
    lastReq,        \* the last request handed to CreateChatCompletion (Nil: none yet)
    cancelled,      \* the request context is done
    httpStatus,     \* status code the handler answered with (0: not answered yet)
    endpoint,       \* the handler that took the request: run, stream, ready ("": none yet)
    httpBody,       \* the response body sent, [kind, text, err, path, resp, chunks]
    poolCalls,      \* an MCPManager on its own: the CallTool calls made on it, in order
    closeLog,       \* an MCPManager on its own: the client.Close calls of Close, in order
    closeErr,       \* an MCPManager on its own: what Close returned
    setLog,         \* an Agent on its own: the arguments of its SetMaxIterations calls
    other,          \* a second request served at the same time: its handler's state (Nil: none)
    agent,          \* the Agent built for the request (name, model, prompt, budget, tools)
    toolServerMap,  \* ToolManager.toolServerMap: tool name -> server name
    messages,       \* Agent.Run: the conversation
    iteration,      \* Agent.Run: the loop counter
    curResp,        \* Agent.Run: resp, what the last CreateChatCompletion returned (Nil: an error)
    tcIdx,          \* Agent.Run: index of the next tool call of the range loop
    result,         \* what Agent.Run returned: [resp, err]
    modelCalls,     \* number of CreateChatCompletion calls issued by the run
    toolLog         \* the executeToolCall calls of the run, in order, with what each did

vars == <<pc, cfgIdx, servers, nextConn, addLog, reqBody, reqPath, reqMaxIter, reqModel, catalogs,
          listing, listOrder,
          lastReq, cancelled, httpStatus, endpoint, httpBody, poolCalls, closeLog, closeErr,
          setLog, other, agent, toolServerMap,
          messages, iteration, curResp, tcIdx, result, modelCalls, toolLog>>

\* the variables of the component specifications, untouched by the process
apiVars == <<poolCalls, closeLog, closeErr, setLog, other>>

----------------------------------------------------------------------------
(* Bounds of the model *)

\* largest max_iterations a request carries explicitly
MaxReqIter == 2
\* largest number of tool calls in one assistant message
MaxCalls == 2
\* number of tool calls of a run that range over every name, argument string
\* and result; the calls after them are drawn from LateNames, LateArgs and
\* LateContents, one call per assistant message
VariedCalls == 1
\* largest number of entries of a catalog a tool manager is built from
MaxCatalog == 2
\* largest number of builds of one tool manager
MaxBuilds == 2
\* largest number of choices in one body of the model gateway
MaxChoices == 2
\* largest number of SetMaxIterations calls on one agent
MaxSets == 1
\* largest number of AddServer calls on one MCP manager
MaxRegistrations == 2
\* largest number of CallTool calls on one MCP manager
MaxPoolCalls == 1

----------------------------------------------------------------------------
(* Program constants *)

DefaultMaxIterations == 10

DefaultSystemPrompt == "You are a helpful AI assistant. Use the available tools when needed to help answer user questions."

RouterSystemPrompt == "You are a helpful assistant that can answer questions and help with tasks."

RouterDefaultModel == "gpt-4o-mini"

\* NewClient: the model deployment when BL_MODEL is not set
ClientModel == "sandbox-openai"

MaxIterationsContent == "Maximum iterations reached. The agent may not have completed the task."

\* NewClient: serverNames
ServerConfigs == <<"blaxel-search", "">>

----------------------------------------------------------------------------
(* Values *)

Nil == [nil |-> TRUE]

NoErr == [msg |-> "nil"]

NoMap == [n \in {} |-> ""]

\* a Go slice: the nil slice, or a non-nil slice with its items
NilSlice == [isNil |-> TRUE, items |-> <<>>]

Slice(items) == [isNil |-> FALSE, items |-> items]

\* ChatMessage with Go zero values for the fields not given
ChatMessage(role, content, toolCalls, toolCallId) ==
    [role |-> role, content |-> content, tool_calls |-> toolCalls, tool_call_id |-> toolCallId]

\* ToolCall: id, type, function{name, arguments}
ToolCall(id, name, arguments) ==
    [id |-> id, type |-> "function", name |-> name, arguments |-> arguments]

Range(s) == {s[i] : i \in 1..Len(s)}

----------------------------------------------------------------------------
(* encoding/json, on token sequences: a JSON text is a sequence of the      *)
(* tokens { } [ ] : , and the literals "s" (string), "n" (number),          *)
(* "t" (true, false, null).  The empty sequence is the empty string.        *)

JsonScalars == {"s", "n", "t"}

JsonNil == [kind |-> "nil", items |-> <<>>]

JsonFail == [ok |-> FALSE, next |-> 0, val |-> JsonNil]

JsonOk(next, kind, items) ==
    [ok |-> TRUE, next |-> next, val |-> [kind |-> kind, items |-> items]]

RECURSIVE ParseValue(_, _), ParseMembers(_, _, _), ParseElements(_, _, _)

\* one JSON value starting at toks[i]
ParseValue(toks, i) ==
    IF i > Len(toks) THEN JsonFail
    ELSE IF toks[i] \in JsonScalars THEN JsonOk(i + 1, toks[i], <<>>)
    ELSE IF toks[i] = "{" THEN
        IF i + 1 <= Len(toks) /\ toks[i + 1] = "}"
        THEN JsonOk(i + 2, "object", <<>>)
        ELSE ParseMembers(toks, i + 1, <<>>)
    ELSE IF toks[i] = "[" THEN
        IF i + 1 <= Len(toks) /\ toks[i + 1] = "]"
        THEN JsonOk(i + 2, "array", <<>>)
        ELSE ParseElements(toks, i + 1, <<>>)
    ELSE JsonFail

\* "key" : value { , "key" : value } "}"
ParseMembers(toks, i, acc) ==
    IF i + 1 > Len(toks) \/ toks[i] # "s" \/ toks[i + 1] # ":" THEN JsonFail
    ELSE LET v == ParseValue(toks, i + 2) IN
         IF ~v.ok \/ v.next > Len(toks) THEN JsonFail
         ELSE IF toks[v.next] = "}" THEN JsonOk(v.next + 1, "object", Append(acc, v.val.kind))
         ELSE IF toks[v.next] = "," THEN ParseMembers(toks, v.next + 1, Append(acc, v.val.kind))
         ELSE JsonFail

\* value { , value } "]"
ParseElements(toks, i, acc) ==
    LET v == ParseValue(toks, i) IN
    IF ~v.ok \/ v.next > Len(toks) THEN JsonFail
    ELSE IF toks[v.next] = "]" THEN JsonOk(v.next + 1, "array", Append(acc, v.val.kind))
    ELSE IF toks[v.next] = "," THEN ParseElements(toks, v.next + 1, Append(acc, v.val.kind))
    ELSE JsonFail

\* faulty variant: the text after the first value is not looked at
JsonUnmarshal_Prefix(toks) ==
    LET v == ParseValue(toks, 1) IN
    IF v.ok THEN v ELSE JsonFail

\* json.Unmarshal(data, &params) with params interface{}: one value, nothing after it
JsonUnmarshal(toks) ==
    LET v == ParseValue(toks, 1) IN
    IF v.ok /\ v.next = Len(toks) + 1 THEN v ELSE JsonFail

RECURSIVE JoinItems(_)
JoinItems(content) ==
    IF Len(content) = 0 THEN ""
    ELSE "{\"type\":\"text\",\"text\":\"" \o Head(content) \o "\"}"
         \o (IF Len(content) > 1 THEN "," ELSE "") \o JoinItems(Tail(content))

\* faulty variant: the whole CallToolResult is marshalled, not its Content
JsonMarshal_WholeResult(content) ==
    IF content.isNil THEN "{\"content\":null}"
    ELSE "{\"content\":[" \o JoinItems(content.items) \o "]}"

\* json.Marshal(toolResult.Content): null for the nil slice, else the content
\* items as a JSON array
JsonMarshal(content) ==
    IF content.isNil THEN "null" ELSE "[" \o JoinItems(content.items) \o "]"

----------------------------------------------------------------------------
(* Inputs of the environment *)

\* largest clock reading of time.Now().Unix()
MaxTime == 1

Times == 0..MaxTime

\* tool names a model response may name; the last one is exposed by no backend
ToolNames == {"search", "get_weather"}

CallNames == ToolNames \cup {"unknown_tool"}

LateNames == {"search", "unknown_tool"}

\* Function.Arguments of a tool call: "", {"s":"s"}, {"s": and {}}
ArgSamples == { <<>>, <<"{", "s", ":", "s", "}">>, <<"{", "s", ":">>, <<"{", "}", "}">> }

LateArgs == { <<"{", "s", ":", "s", "}">>, <<"{", "s", ":">> }

\* CallToolResult.Content a backend returns: one text item, or the nil slice
\* of a result without content
ResultContents == { Slice(<<"60">>), NilSlice }

\* a non-nil slice without items
LateContents == { Slice(<<>>) }

ToolDescriptor(name) == [name |-> name, description |-> "tool " \o name]

\* the tools each configured backend exposes; "search" is exposed by both
ServerTools(serverName) ==
    IF serverName = "blaxel-search"
    THEN <<ToolDescriptor("search")>>
    ELSE <<ToolDescriptor("get_weather"), ToolDescriptor("search")>>

\* what one backend answers to ListTools: its tools or an error
ListOutcomes(serverName) ==
    { [ok |-> TRUE, tools |-> ServerTools(serverName)], [ok |-> FALSE, tools |-> <<>>] }

\* one answer for each of the given servers
ListingChoices(names) ==
    { f \in [names -> UNION { ListOutcomes(n) : n \in names }] :
        \A n \in names : f[n] \in ListOutcomes(n) }

ReqMaxIters == (-1)..MaxReqIter

\* a request body: json, whether it is JSON at all, then its fields inputs,
\* max_iterations, model and system_prompt ("" and 0 when absent)
Body(json, inputs, maxIterations, model, systemPrompt) ==
    [json |-> json, inputs |-> inputs, max_iterations |-> maxIterations, model |-> model,
     system_prompt |-> systemPrompt]

\* the well-formed request bodies: no model and each budget, one that names
\* its model and one that brings its system prompt
Requests ==
    { Body(TRUE, "2+2?", mi, "", "") : mi \in ReqMaxIters }
    \cup { Body(TRUE, "2+2?", 1, "gpt-4o", ""), Body(TRUE, "2+2?", 1, "", "Answer in French.") }

\* a body that is not JSON, and a JSON body without inputs
BadBodies == { Body(FALSE, "", 0, "", ""), Body(TRUE, "", 1, "", "") }

\* the request bodies sent to the run-agent route
Bodies == Requests \cup BadBodies

\* the request bodies sent to the stream-agent route
StreamBodies == { b \in Requests : b.max_iterations = 1 } \cup BadBodies

CallId(k) == "call_" \o ToString(k)

\* the (name, arguments) pairs of the n-th tool call of a run
CallChoices(n) ==
    IF n <= VariedCalls THEN CallNames \X ArgSamples ELSE LateNames \X LateArgs

\* the tool_calls sequences a model response may carry after `executed` tool
\* calls of the run
ToolCallSeqs(executed) ==
    LET lens == IF executed < VariedCalls THEN 1..MaxCalls ELSE {1} IN
    UNION { { [k \in 1..n |-> ToolCall(CallId(k), f[k][1], f[k][2])] :
                f \in { g \in [1..n -> CallNames \X (ArgSamples \cup LateArgs)] :
                          \A k \in 1..n : g[k] \in CallChoices(executed + k) } } :
            n \in lens }

Usage(p, c, t) == [prompt_tokens |-> p, completion_tokens |-> c, total_tokens |-> t]

Choice(index, message, finishReason) ==
    [index |-> index, message |-> message, finish_reason |-> finishReason]

ChatCompletionResponse(id, created, model, choices, usage) ==
    [id |-> id, object |-> "chat.completion", created |-> created, model |-> model,
     choices |-> choices, usage |-> usage]

UpstreamResponse(choices) ==
    ChatCompletionResponse("chatcmpl-1", 1, "sandbox-openai", choices, Usage(12, 3, 15))

\* the completions the model endpoint may return after `executed` tool calls
ModelResponses(executed) ==
    { UpstreamResponse(<<>>),
      UpstreamResponse(<<Choice(0, ChatMessage("assistant", "4", <<>>, ""), "stop")>>) }
    \cup { UpstreamResponse(<<Choice(0, ChatMessage("assistant", "", tcs, ""), "tool_calls")>>) :
             tcs \in ToolCallSeqs(executed) }

Err(msg, tool, it, cause) == [msg |-> msg, tool |-> tool, iteration |-> it, cause |-> cause]

\* the errors CreateChatCompletion may return
GatewayErrors ==
    { Err("failed to create chat completion", "", 0, NoErr),
      Err("API error", "", 0, NoErr) }

\* what a backend connection answers to the n-th tool call of a run
BackendOutcomes(n) ==
    { [ok |-> TRUE, content |-> c] : c \in (IF n <= VariedCalls THEN ResultContents ELSE LateContents) }
    \cup { [ok |-> FALSE, content |-> NilSlice] }

BackendError == Err("tool call failed", "", 0, NoErr)

----------------------------------------------------------------------------
(* pkg/blaxel: MCPManager *)

\* the orders in which range m.servers may visit the given names
Orders(names) ==
    { o \in [1..Cardinality(names) -> names] : \A i, j \in DOMAIN o : i # j => o[i] # o[j] }

ToolWithServer(tool, serverName) == [Tool |-> tool, ServerName |-> serverName]

\* faulty variant: the server name of the entries is left empty
ListedBy_Unnamed(serverName, answer) ==
    IF answer.ok
    THEN [i \in 1..Len(answer.tools) |-> ToolWithServer(answer.tools[i], "")]
    ELSE <<>>

\* ListAllTools: what one server adds to the result, nothing when its
\* ListTools failed
ListedBy(serverName, answer) ==
    IF answer.ok
    THEN [i \in 1..Len(answer.tools) |-> ToolWithServer(answer.tools[i], serverName)]
    ELSE <<>>

RECURSIVE ListAllTools(_, _)
\* ListAllTools: the servers in range order, a failed listing skipped
ListAllTools(order, outcome) ==
    IF Len(order) = 0 THEN <<>>
    ELSE ListedBy(Head(order), outcome[Head(order)]) \o ListAllTools(Tail(order), outcome)

\* faulty variant: an error is returned when no server could list its tools
ListAllToolsErr_NoneListed(order, outcome) ==
    IF \A i \in DOMAIN order : ~outcome[order[i]].ok
    THEN Err("failed to list tools", "", 0, NoErr)
    ELSE NoErr

\* ListAllTools: the error returned next to the tools
ListAllToolsErr(order, outcome) == NoErr

\* faulty variant: a name that is not registered falls back to a registered server
CallTool_FallsBack(srvs, serverName, toolName, outcome) ==
    LET target == IF serverName \in DOMAIN srvs \/ DOMAIN srvs = {} THEN serverName
                  ELSE CHOOSE n \in DOMAIN srvs : TRUE
    IN IF target \notin DOMAIN srvs
       THEN [ok |-> FALSE, forwarded |-> FALSE, conn |-> 0, content |-> NilSlice,
             err |-> Err("MCP server not found", serverName, 0, NoErr)]
       ELSE IF outcome.ok
       THEN [ok |-> TRUE, forwarded |-> TRUE, conn |-> srvs[target],
             content |-> outcome.content, err |-> NoErr]
       ELSE [ok |-> FALSE, forwarded |-> TRUE, conn |-> srvs[target],
             content |-> NilSlice, err |-> BackendError]

\* MCPManager.CallTool: the lookup of the server, then the backend's answer;
\* conn is the connection the call was handed to (0: none)
CallTool(srvs, serverName, toolName, outcome) ==
    IF serverName \notin DOMAIN srvs
    THEN [ok |-> FALSE, forwarded |-> FALSE, conn |-> 0, content |-> NilSlice,
          err |-> Err("MCP server not found", serverName, 0, NoErr)]
    ELSE IF outcome.ok
    THEN [ok |-> TRUE, forwarded |-> TRUE, conn |-> srvs[serverName],
          content |-> outcome.content, err |-> NoErr]
    ELSE [ok |-> FALSE, forwarded |-> TRUE, conn |-> srvs[serverName],
          content |-> NilSlice, err |-> BackendError]

\* the error client.Close returns for the connection of the given server
CloseError(serverName) == Err("close failed", serverName, 0, NoErr)

\* faulty variant: the first error is kept, later ones are dropped
CloseStep_KeepsFirst(acc, serverName, ok) ==
    [attempts |-> Append(acc.attempts, serverName),
     lastErr |-> IF ok \/ acc.lastErr # NoErr THEN acc.lastErr ELSE CloseError(serverName)]

\* MCPManager.Close: one pass of its range loop, the connection is closed and
\* a failure remembered
CloseStep(acc, serverName, ok) ==
    [attempts |-> Append(acc.attempts, serverName),
     lastErr |-> IF ok THEN acc.lastErr ELSE CloseError(serverName)]

RECURSIVE CloseAll(_, _, _)
CloseAll(order, outcome, acc) ==
    IF Len(order) = 0 THEN acc
    ELSE CloseAll(Tail(order), outcome, CloseStep(acc, Head(order), outcome[Head(order)]))

\* MCPManager.Close: the servers in range order; attempts are the connections
\* closed, lastErr is what is returned
Close(order, outcome) == CloseAll(order, outcome, [attempts |-> <<>>, lastErr |-> NoErr])

GetServerCount(srvs) == Cardinality(DOMAIN srvs)

----------------------------------------------------------------------------
(* pkg/agent: ToolManager *)

Tool(name, description) == [type |-> "function", name |-> name, description |-> description]

\* NewToolManager: the empty map
NewToolManager == NoMap

\* faulty variant: key and value of the assignment are swapped
SetToolServer_KeyedByServer(m, e) ==
    [n \in DOMAIN m \cup {e.ServerName} |-> IF n = e.ServerName THEN e.Tool.name ELSE m[n]]

\* faulty variant: a name that is already routed keeps its server
SetToolServer_FirstWins(m, e) ==
    [n \in DOMAIN m \cup {e.Tool.name} |-> IF n \in DOMAIN m THEN m[n] ELSE e.ServerName]

\* the assignment tm.toolServerMap[mcpTool.Name] = serverName
SetToolServer(m, e) ==
    [n \in DOMAIN m \cup {e.Tool.name} |-> IF n = e.Tool.name THEN e.ServerName ELSE m[n]]

RECURSIVE BuildToolServerMap(_, _)
\* the assignments of the range loop over the catalog, in catalog order
BuildToolServerMap(catalog, m) ==
    IF Len(catalog) = 0 THEN m
    ELSE BuildToolServerMap(Tail(catalog), SetToolServer(m, Head(catalog)))

\* faulty variant: the map of the earlier call is not cleared
ConvertMCPToolsToOpenAI_KeepsOld(m, catalog) ==
    [tools |-> [i \in 1..Len(catalog) |-> Tool(catalog[i].Tool.name, catalog[i].Tool.description)],
     toolServerMap |-> BuildToolServerMap(catalog, m)]

\* faulty variant: only the first entry of the catalog is entered in the map
ConvertMCPToolsToOpenAI_MapsFirstOnly(m, catalog) ==
    [tools |-> [i \in 1..Len(catalog) |-> Tool(catalog[i].Tool.name, catalog[i].Tool.description)],
     toolServerMap |-> IF Len(catalog) = 0 THEN NoMap ELSE SetToolServer(NoMap, catalog[1])]

\* ConvertMCPToolsToOpenAI on a tool manager whose map is m: the tools
\* returned, and the map cleared and rebuilt from the catalog
ConvertMCPToolsToOpenAI(m, catalog) ==
    [tools |-> [i \in 1..Len(catalog) |-> Tool(catalog[i].Tool.name, catalog[i].Tool.description)],
     toolServerMap |-> BuildToolServerMap(catalog, NoMap)]

\* faulty variant: the lookup reports every name as present, with the zero
\* value of the map for a missing one
GetServerForTool_AlwaysExists(m, toolName) ==
    IF toolName \in DOMAIN m
    THEN [serverName |-> m[toolName], exists |-> TRUE]
    ELSE [serverName |-> "", exists |-> TRUE]

\* GetServerForTool: (serverName, exists)
GetServerForTool(m, toolName) ==
    IF toolName \in DOMAIN m
    THEN [serverName |-> m[toolName], exists |-> TRUE]
    ELSE [serverName |-> "", exists |-> FALSE]

----------------------------------------------------------------------------
(* pkg/agent: Agent *)

Config(name, model, systemPrompt, maxIterations) ==
    [Name |-> name, Model |-> model, SystemPrompt |-> systemPrompt, MaxIterations |-> maxIterations]
\* faulty variant: only a negative budget is replaced by the default
NewAgent_ZeroKept(config) ==
    [name |-> config.Name,
     model |-> config.Model,
     systemPrompt |-> IF config.SystemPrompt = "" THEN DefaultSystemPrompt ELSE config.SystemPrompt,
     maxIterations |-> IF config.MaxIterations < 0 THEN DefaultMaxIterations ELSE config.MaxIterations,
     tools |-> <<>>]


NewAgent(config) ==
    [name |-> config.Name,
     model |-> config.Model,
     systemPrompt |-> IF config.SystemPrompt = "" THEN DefaultSystemPrompt ELSE config.SystemPrompt,
     maxIterations |-> IF config.MaxIterations <= 0 THEN DefaultMaxIterations ELSE config.MaxIterations,
     tools |-> <<>>]

SetTools(a, tools) == [a EXCEPT !.tools = tools]

\* Agent.SetMaxIterations: the budget is stored as given
SetMaxIterations(a, max) == [a EXCEPT !.maxIterations = max]

SetSystemPrompt(a, prompt) == [a EXCEPT !.systemPrompt = prompt]

\* faulty variant: the placeholder response is built without a choice
createMaxIterationsResponse_NoChoices(a, t1, t2) ==
    ChatCompletionResponse("agent-" \o a.name \o "-" \o ToString(t1), t2, a.model,
        <<>>, Usage(0, 0, 0))

createMaxIterationsResponse(a, t1, t2) ==
    ChatCompletionResponse("agent-" \o a.name \o "-" \o ToString(t1), t2, a.model,
        <<Choice(0, ChatMessage("assistant", MaxIterationsContent, <<>>, ""), "length")>>,
        Usage(0, 0, 0))

JsonSyntaxError == Err("invalid JSON", "", 0, NoErr)

\* faulty variant: the arguments are parsed even when they are the empty string
executeToolCall_ParsesEmpty(tsm, srvs, toolCall, outcome) ==
    LET parsed == JsonUnmarshal(toolCall.arguments)
        route  == GetServerForTool(tsm, toolCall.name)
        called == CallTool(srvs, route.serverName, toolCall.name, outcome)
        Ret(content, err, looked, forwarded) ==
            [content |-> content, err |-> err, looked |-> looked, forwarded |-> forwarded,
             server |-> route.serverName, params |-> parsed.val]
    IN IF ~parsed.ok
       THEN Ret("", Err("failed to parse tool arguments", "", 0, JsonSyntaxError), FALSE, FALSE)
       ELSE IF ~route.exists
       THEN Ret("", Err("no server found for tool", toolCall.name, 0, NoErr), TRUE, FALSE)
       ELSE IF ~called.ok
       THEN Ret("", Err("failed to call tool", toolCall.name, 0, called.err), TRUE, called.forwarded)
       ELSE Ret(JsonMarshal(called.content), NoErr, TRUE, TRUE)

\* faulty variant: a failed tool call is reported to the model as the tool's result
executeToolCall_ErrorAsResult(tsm, srvs, toolCall, outcome) ==
    LET parsed == IF toolCall.arguments # <<>> THEN JsonUnmarshal(toolCall.arguments)
                  ELSE [ok |-> TRUE, next |-> 0, val |-> JsonNil]
        route  == GetServerForTool(tsm, toolCall.name)
        called == CallTool(srvs, route.serverName, toolCall.name, outcome)
        Ret(content, err, looked, forwarded) ==
            [content |-> content, err |-> err, looked |-> looked, forwarded |-> forwarded,
             server |-> route.serverName, params |-> parsed.val]
    IN IF ~parsed.ok
       THEN Ret("", Err("failed to parse tool arguments", "", 0, JsonSyntaxError), FALSE, FALSE)
       ELSE IF ~route.exists
       THEN Ret("", Err("no server found for tool", toolCall.name, 0, NoErr), TRUE, FALSE)
       ELSE IF ~called.ok
       THEN Ret("{\"error\":\"" \o called.err.msg \o "\"}", NoErr, TRUE, called.forwarded)
       ELSE Ret(JsonMarshal(called.content), NoErr, TRUE, TRUE)

\* executeToolCall: parse the arguments, find the server, call the tool, marshal.
\* looked: the tool manager was asked for the server; forwarded: a backend
\* connection received the call.
executeToolCall(tsm, srvs, toolCall, outcome) ==
    LET parsed == IF toolCall.arguments # <<>> THEN JsonUnmarshal(toolCall.arguments)
                  ELSE [ok |-> TRUE, next |-> 0, val |-> JsonNil]
        route  == GetServerForTool(tsm, toolCall.name)
        called == CallTool(srvs, route.serverName, toolCall.name, outcome)
        Ret(content, err, looked, forwarded) ==
            [content |-> content, err |-> err, looked |-> looked, forwarded |-> forwarded,
             server |-> route.serverName, params |-> parsed.val]
    IN IF ~parsed.ok
       THEN Ret("", Err("failed to parse tool arguments", "", 0, JsonSyntaxError), FALSE, FALSE)
       ELSE IF ~route.exists
       THEN Ret("", Err("no server found for tool", toolCall.name, 0, NoErr), TRUE, FALSE)
       ELSE IF ~called.ok
       THEN Ret("", Err("failed to call tool", toolCall.name, 0, called.err), TRUE, called.forwarded)
       ELSE Ret(JsonMarshal(called.content), NoErr, TRUE, TRUE)

----------------------------------------------------------------------------
(* The process: startup (NewClient), then one request through runAgent *)

NoAgent == NewAgent(Config("", "", "", 0))

\* a response without a body
NoBody == [kind |-> "none", text |-> "", err |-> NoErr, path |-> "", resp |-> Nil, chunks |-> <<>>]

\* no ListTools answer yet
NoListing == [n \in {} |-> [ok |-> FALSE, tools |-> <<>>]]

Init ==
    /\ pc = "startup"
    /\ cfgIdx = 1
    /\ servers = NoMap
    /\ nextConn = 1
    /\ addLog = <<>>
    /\ reqMaxIter = 0
    /\ reqBody = Nil
    /\ reqPath = ""
    /\ reqModel = ""
    /\ catalogs = <<>>
    /\ listing = NoListing
    /\ listOrder = <<>>
    /\ lastReq = Nil
    /\ cancelled = FALSE
    /\ httpStatus = 0
    /\ endpoint = ""
    /\ httpBody = NoBody
    /\ poolCalls = <<>>
    /\ closeLog = <<>>
    /\ closeErr = NoErr
    /\ setLog = <<>>
    /\ other = Nil
    /\ agent = NoAgent
    /\ toolServerMap = NoMap
    /\ messages = <<>>
    /\ iteration = 0
    /\ curResp = Nil
    /\ tcIdx = 0
    /\ result = [resp |-> Nil, err |-> NoErr]
    /\ modelCalls = 0
    /\ toolLog = <<>>

runVars == <<reqBody, reqPath, reqMaxIter, reqModel, catalogs, listing, listOrder, lastReq,
             cancelled, httpStatus,
             endpoint, httpBody, agent, toolServerMap, messages, iteration, curResp, tcIdx,
             result, modelCalls, toolLog>>

\* MCPManager.AddServer(config) when NewMCPClient succeeds
AddServerOk(name) ==
    [n \in DOMAIN servers \cup {name} |-> IF n = name THEN nextConn ELSE servers[n]]

\* faulty variant: the client is stored before the error of NewMCPClient is looked at
AddServerResult_StoresFailed(name, opened) ==
    IF opened
    THEN [servers |-> AddServerOk(name), err |-> NoErr]
    ELSE [servers |-> [n \in DOMAIN servers \cup {name} |-> IF n = name THEN 0 ELSE servers[n]],
          err |-> Err("failed to create MCP client", "", 0, NoErr)]

\* MCPManager.AddServer(config): the pool after the call and the error returned
AddServerResult(name, opened) ==
    IF opened
    THEN [servers |-> AddServerOk(name), err |-> NoErr]
    ELSE [servers |-> servers, err |-> Err("failed to create MCP client", "", 0, NoErr)]

\* faulty variant: the server is started as soon as the manager exists
StartupDone_Early(idx) == idx >= 1

\* NewClient has left its registration loop, every configured server has had
\* its AddServer call; only then does it return and main go on to engine.Run
StartupDone(idx) == idx > Len(ServerConfigs)

\* NewClient: register the next configured server; a failure is logged and skipped
AddServer ==
    /\ cfgIdx <= Len(ServerConfigs)
    /\ \E opened \in BOOLEAN :
          LET r == AddServerResult(ServerConfigs[cfgIdx], opened) IN
          /\ servers' = r.servers
          /\ nextConn' = IF opened THEN nextConn + 1 ELSE nextConn
          /\ addLog' = Append(addLog, [name |-> ServerConfigs[cfgIdx], opened |-> opened,
                                       conn |-> IF opened THEN nextConn ELSE 0])
    /\ cfgIdx' = cfgIdx + 1
    /\ UNCHANGED <<pc, runVars, apiVars>>

\* main: NewClient has returned, the engine accepts requests
StartServing ==
    /\ pc = "startup"
    /\ StartupDone(cfgIdx)
    /\ pc' = "serving"
    /\ UNCHANGED <<cfgIdx, servers, nextConn, addLog, runVars, apiVars>>

\* faulty variant: the completion is rebuilt around its first message, usage is lost
Completed_Rebuilt(resp) ==
    [resp |-> [resp EXCEPT !.choices = <<resp.choices[1]>>, !.usage = Usage(0, 0, 0)], err |-> NoErr]

\* Agent.Run: return resp, nil
Completed(resp) == [resp |-> resp, err |-> NoErr]

\* Agent.Run: return nil, err
Aborted(err) == [resp |-> Nil, err |-> err]

\* faulty variant: the loop test is strict, the last iteration is not run
LoopHead_Strict(a, it, res) ==
    IF it < a.maxIterations
    THEN /\ pc' = "model"
         /\ result' = res
    ELSE /\ pc' = "done"
         /\ \E t1 \in Times : \E t2 \in t1..MaxTime :
               result' = Completed(createMaxIterationsResponse(a, t1, t2))

\* faulty variant: the loop condition lets one more iteration through
LoopHead_OffByOne(a, it, res) ==
    IF it <= a.maxIterations + 1
    THEN /\ pc' = "model"
         /\ result' = res
    ELSE /\ pc' = "done"
         /\ \E t1 \in Times : \E t2 \in t1..MaxTime :
               result' = Completed(createMaxIterationsResponse(a, t1, t2))

\* Agent.Run: the loop test, then either the next request to the model or
\* the max-iterations response
LoopHead(a, it, res) ==
    IF it <= a.maxIterations
    THEN /\ pc' = "model"
         /\ result' = res
    ELSE /\ pc' = "done"
         /\ \E t1 \in Times : \E t2 \in t1..MaxTime :
               result' = Completed(createMaxIterationsResponse(a, t1, t2))

\* runAgent: the status the handler answers with once Agent.Run has returned
StatusOf(res) == IF res.err # NoErr THEN 500 ELSE 200

\* runAgent: the model of the agent config, the request's or the default
ModelOrDefault(model) == IF model = "" THEN RouterDefaultModel ELSE model

\* runAgent: the system prompt of the agent config, the request's or the default
PromptOrDefault(systemPrompt) == IF systemPrompt = "" THEN RouterSystemPrompt ELSE systemPrompt

\* faulty variant: a body without inputs is accepted
ShouldBindJSON_InputsOptional(body) ==
    IF ~body.json THEN [ok |-> FALSE, err |-> Err("invalid character", "", 0, NoErr)]
    ELSE [ok |-> TRUE, err |-> NoErr]

\* ShouldBindJSON into the request struct, whose inputs field is required
ShouldBindJSON(body) ==
    IF ~body.json THEN [ok |-> FALSE, err |-> Err("invalid character", "", 0, NoErr)]
    ELSE IF body.inputs = "" THEN [ok |-> FALSE, err |-> Err("Field validation for 'Inputs' failed on the 'required' tag", "", 0, NoErr)]
    ELSE [ok |-> TRUE, err |-> NoErr]

\* the paths each handler is mounted on: runAgent on POST /agent and on
\* POST /agent/run
RoutePaths(rt) ==
    IF rt = "stream" THEN {"/"}
    ELSE IF rt = "ready" THEN {"/health/ready"}
    ELSE {"/agent", "/agent/run"}

\* gin, c.AbortWithStatus(code): the status is set and the header written at
\* once, so that the response counts as written
AbortWithStatus(code) == [status |-> code, written |-> TRUE, body |-> NoBody]

\* gin, c.JSON(code, obj) with a completion
JSON(code, resp) ==
    [status |-> code, written |-> TRUE, body |-> [NoBody EXCEPT !.kind = "json", !.resp = resp]]

\* gin, c.String(code, format, err)
String(code, text, err) ==
    [status |-> code, written |-> TRUE, body |-> [NoBody EXCEPT !.kind = "text", !.text = text, !.err = err]]

\* ErrorHandlerMiddleware, after c.Next(): with an error on the context and
\* nothing written yet, the ErrorResponse is sent
ErrorHandlerMiddleware(w, errors, path) ==
    IF Len(errors) > 0 /\ ~w.written
    THEN [status |-> IF w.status = 200 THEN 500 ELSE w.status, written |-> TRUE,
          body |-> [NoBody EXCEPT !.kind = "error", !.err = errors[Len(errors)], !.path = path]]
    ELSE w

\* for _, char := range content: the characters of the content, in order
Runes(content) == [i \in 1..Len(content) |-> SubSeq(content, i, i)]

\* faulty variant: the first character is not written
StreamChunks_SkipsFirst(resp) == Tail(Runes(resp.choices[1].message.content))

\* streamAgent: the strings written, one for each character of the content of
\* the first choice
StreamChunks(resp) == Runes(resp.choices[1].message.content)

\* the handler rejects a body that does not bind
BadRequestResponse(path, err) ==
    ErrorHandlerMiddleware(AbortWithStatus(400), <<Err("invalid request", "", 0, err)>>, path)

\* the handler gives up when the tools cannot be listed
ListToolsErrorResponse(path, err) ==
    ErrorHandlerMiddleware(AbortWithStatus(500), <<Err("failed to get tools", "", 0, err)>>, path)

\* runAgent: what is answered once Agent.Run has returned
RunAgentResponse(path, res) ==
    IF res.err # NoErr
    THEN ErrorHandlerMiddleware(AbortWithStatus(StatusOf(res)),
                                <<Err("agent execution failed", "", 0, res.err)>>, path)
    ELSE ErrorHandlerMiddleware(JSON(StatusOf(res), res.resp), <<>>, path)

\* streamAgent: what is answered once Agent.Run has returned
StreamAgentResponse(path, res) ==
    IF res.err # NoErr
    THEN ErrorHandlerMiddleware(String(StatusOf(res), "Error: ", res.err), <<>>, path)
    ELSE IF Len(res.resp.choices) > 0
    THEN ErrorHandlerMiddleware(
             [status |-> StatusOf(res), written |-> TRUE,
              body |-> [NoBody EXCEPT !.kind = "stream", !.chunks = StreamChunks(res.resp)]],
             <<>>, path)
    ELSE ErrorHandlerMiddleware(String(500, "No response generated", NoErr), <<>>, path)

HandlerResponse(rt, path, res) ==
    IF rt = "stream" THEN StreamAgentResponse(path, res) ELSE RunAgentResponse(path, res)

\* the handler answers when Agent.Run has returned in this step
Answer(rt) ==
    IF pc' = "done" /\ rt # ""
    THEN /\ httpStatus' = HandlerResponse(rt, reqPath', result').status
         /\ httpBody' = HandlerResponse(rt, reqPath', result').body
    ELSE UNCHANGED <<httpStatus, httpBody>>

\* the name each handler gives the agent it builds
AgentName(rt) == IF rt = "stream" THEN "streaming-agent" ELSE "demo-agent"

\* runAgent and streamAgent once ListAllTools has returned, the servers
\* visited in the given order with the given answers: convert the tools, build
\* the agent and enter Agent.Run up to its first request to the model
StartRun(rt, path, body, order, outcome) ==
    LET mcpTools == ListAllTools(order, outcome)
        err == ListAllToolsErr(order, outcome)
        conv == ConvertMCPToolsToOpenAI(NewToolManager, mcpTools)
        a == SetTools(NewAgent(Config(AgentName(rt), ModelOrDefault(body.model),
                                      PromptOrDefault(body.system_prompt),
                                      body.max_iterations)), conv.tools)
    IN /\ listing' = outcome
       /\ listOrder' = <<>>
       /\ IF err # NoErr
          THEN /\ pc' = "failed"
               /\ httpStatus' = ListToolsErrorResponse(path, err).status
               /\ httpBody' = ListToolsErrorResponse(path, err).body
               /\ UNCHANGED <<catalogs, agent, toolServerMap, messages, iteration, result>>
          ELSE /\ catalogs' = Append(catalogs, mcpTools)
               /\ agent' = a
               /\ toolServerMap' = conv.toolServerMap
               /\ messages' = <<ChatMessage("system", a.systemPrompt, <<>>, ""),
                                ChatMessage("user", body.inputs, <<>>, "")>>
               /\ iteration' = 1
               /\ LoopHead(a, 1, result)
               /\ Answer(rt)

\* runAgent and streamAgent: bind the request and call ListAllTools, which
\* asks the first server for its tools; with no server in the pool it
\* returns at once and the handler goes on into Agent.Run
ServeAgent(rt, arrivals) ==
    /\ pc = "serving"
    /\ endpoint' = rt
    /\ \E arrival \in arrivals :
          LET path == arrival[1]
              body == arrival[2]
              bound == ShouldBindJSON(body)
          IN /\ path \in RoutePaths(rt)
             /\ reqPath' = path
             /\ reqBody' = body
             /\ IF ~bound.ok
                THEN /\ pc' = "rejected"
                     /\ httpStatus' = BadRequestResponse(path, bound.err).status
                     /\ httpBody' = BadRequestResponse(path, bound.err).body
                     /\ UNCHANGED <<reqMaxIter, reqModel, listing, listOrder, catalogs, agent,
                                    toolServerMap, messages, iteration, result>>
                ELSE /\ reqMaxIter' = body.max_iterations
                     /\ reqModel' = body.model
                     /\ IF DOMAIN servers = {}
                        THEN StartRun(rt, path, body, <<>>, NoListing)
                        ELSE /\ pc' = "listing"
                             /\ UNCHANGED <<listing, listOrder, catalogs, agent, toolServerMap,
                                            messages, iteration, result, httpStatus, httpBody>>
    /\ UNCHANGED <<cfgIdx, servers, nextConn, addLog, lastReq, cancelled, curResp, tcIdx,
                   modelCalls, toolLog, apiVars>>

\* ListAllTools, one turn of its range over m.servers: a server not visited
\* yet answers client.ListTools; after the last server ListAllTools returns
\* and the handler goes on into Agent.Run
ListToolsStep ==
    /\ pc = "listing"
    /\ \E serverName \in DOMAIN servers \ Range(listOrder),
          answer \in UNION { ListOutcomes(n) : n \in DOMAIN servers } :
          LET order == Append(listOrder, serverName)
              outcome == [n \in DOMAIN listing \cup {serverName} |->
                             IF n = serverName THEN answer ELSE listing[n]]
          IN /\ answer \in ListOutcomes(serverName)
             /\ IF Len(order) < Cardinality(DOMAIN servers)
                THEN /\ listing' = outcome
                     /\ listOrder' = order
                     /\ UNCHANGED <<pc, catalogs, agent, toolServerMap, messages, iteration,
                                    result, httpStatus, httpBody>>
                ELSE StartRun(endpoint, reqPath, reqBody, order, outcome)
    /\ UNCHANGED <<cfgIdx, servers, nextConn, addLog, reqBody, reqPath, reqMaxIter, reqModel,
                   lastReq, cancelled, endpoint, curResp, tcIdx, modelCalls, toolLog, apiVars>>

\* the bodies sent to POST /agent/run
AltBodies ==
    { b \in Requests : b.max_iterations = 1 /\ b.model = "" /\ b.system_prompt = "" } \cup BadBodies

\* the requests that arrive for runAgent
RunArrivals == ({"/agent"} \X Bodies) \cup ({"/agent/run"} \X AltBodies)

RunAgent == ServeAgent("run", RunArrivals)

StreamAgent == ServeAgent("stream", {"/"} \X StreamBodies)

\* faulty variant: the probe reports ready whatever the pool holds
ReadinessStatus_AlwaysReady(serverCount) == 200

\* readinessCheck: the status for the given number of servers
ReadinessStatus(serverCount) == IF serverCount = 0 THEN 503 ELSE 200

\* readinessCheck: the probe is answered from the count of the pool
ReadinessCheck ==
    /\ pc = "serving"
    /\ endpoint' = "ready"
    /\ reqPath' \in RoutePaths("ready")
    /\ pc' = "probed"
    /\ httpStatus' = ReadinessStatus(GetServerCount(servers))
    /\ httpBody' = [NoBody EXCEPT !.kind = "json",
                                  !.text = IF ReadinessStatus(GetServerCount(servers)) = 200
                                           THEN "ready" ELSE "not ready"]
    /\ UNCHANGED <<cfgIdx, servers, nextConn, addLog, reqBody, reqMaxIter, reqModel,
                   catalogs, listing, listOrder,
                   lastReq, cancelled, agent, toolServerMap, messages, iteration, curResp,
                   tcIdx, result, modelCalls, toolLog, apiVars>>

\* faulty variant: the iteration is reported zero-based
AIResponseError_ZeroBased(it, cause) == Err("failed to get AI response", "", it - 1, cause)

\* Agent.Run: the error returned when CreateChatCompletion fails
AIResponseError(it, cause) == Err("failed to get AI response", "", it, cause)

\* faulty variant: a completion without choices is not reported as an error
NoChoicesError_Silent(it) == NoErr

\* Agent.Run: the error returned when the completion has no choices
NoChoicesError(it) == Err("no response choices returned", "", it, NoErr)

\* Agent.Run: the error returned when executeToolCall fails
ToolExecutionError(toolCall, it, cause) == Err("failed to execute tool", toolCall.name, it, cause)

\* faulty variant: the tool message carries the name of the tool, not the id of the call
ToolResultMessage_NameAsId(toolCall, toolResult) == ChatMessage("tool", toolResult, <<>>, toolCall.name)

\* Agent.Run: the tool message appended for a tool call and its result
ToolResultMessage(toolCall, toolResult) == ChatMessage("tool", toolResult, <<>>, toolCall.id)

\* faulty variant: the request carries the two opening messages and the
\* latest message only
ChatCompletionRequest_LatestOnly(msgs, tools) ==
    [Model |-> "",
     Messages |-> SubSeq(msgs, 1, 2) \o (IF Len(msgs) > 2 THEN <<msgs[Len(msgs)]>> ELSE <<>>),
     Tools |-> tools]

\* Agent.Run: the request of one iteration
ChatCompletionRequest(msgs, tools) == [Model |-> "", Messages |-> msgs, Tools |-> tools]

\* CreateChatCompletion: the request as it leaves the client, with the model
\* deployment it is run on; ctxDone: the context of the caller was done when
\* the request was issued (it is issued under context.Background())
SentRequest(req, ctxDone) == [body |-> req, deployment |-> ClientModel, ctxDone |-> ctxDone]

\* Agent.Run: the request of this iteration is handed to CreateChatCompletion
ModelSend ==
    /\ pc = "model"
    /\ lastReq' = SentRequest(ChatCompletionRequest(messages, agent.tools), cancelled)
    /\ modelCalls' = modelCalls + 1
    /\ pc' = "model_wait"
    /\ UNCHANGED <<cfgIdx, servers, nextConn, addLog, reqBody, reqPath, reqMaxIter, reqModel,
                   catalogs, listing, listOrder,
                   cancelled, httpStatus, endpoint, httpBody, agent, toolServerMap, messages,
                   iteration, curResp, tcIdx, result, toolLog, apiVars>>

\* Agent.Run: CreateChatCompletion returns and its answer is handled
ModelCall ==
    /\ pc = "model_wait"
    /\ \/ \E e \in GatewayErrors :
            /\ curResp' = Nil
            /\ result' = Aborted(AIResponseError(iteration, e))
            /\ pc' = "done"
            /\ UNCHANGED <<messages, tcIdx>>
       \/ \E resp \in ModelResponses(Len(toolLog)) :
            /\ curResp' = resp
            /\ IF Len(resp.choices) = 0
               THEN /\ result' = Aborted(NoChoicesError(iteration))
                    /\ pc' = "done"
                    /\ UNCHANGED <<messages, tcIdx>>
               ELSE LET assistantMessage == resp.choices[1].message IN
                    /\ messages' = Append(messages, assistantMessage)
                    /\ IF Len(assistantMessage.tool_calls) > 0
                       THEN /\ pc' = "tools"
                            /\ tcIdx' = 1
                            /\ UNCHANGED result
                       ELSE /\ pc' = "done"
                            /\ result' = Completed(resp)
                            /\ UNCHANGED tcIdx
    /\ Answer(endpoint)
    /\ UNCHANGED <<cfgIdx, servers, nextConn, addLog, reqBody, reqPath, reqMaxIter, reqModel,
                   catalogs, listing, listOrder,
                   lastReq, cancelled, endpoint, agent, toolServerMap, iteration, modelCalls,
                   toolLog, apiVars>>

\* faulty variant: the tool calls of a message are taken last to first
RangeToolCall_Reversed(toolCalls, k) == toolCalls[Len(toolCalls) + 1 - k]

\* Agent.Run: the k-th tool call the range loop visits
RangeToolCall(toolCalls, k) == toolCalls[k]

\* the answer slot of a tool call no backend has answered
NoAnswer == [ok |-> FALSE, content |-> NilSlice]

\* Agent.Run: the next tool call of the range loop enters executeToolCall; it
\* fails before any backend is reached, or it is handed to the backend
ToolDispatch ==
    /\ pc = "tools"
    /\ LET toolCall == RangeToolCall(curResp.choices[1].message.tool_calls, tcIdx)
           r == executeToolCall(toolServerMap, servers, toolCall, NoAnswer)
       IN /\ toolLog' = Append(toolLog,
                 [iteration |-> iteration, index |-> tcIdx, call |-> toolCall,
                  looked |-> r.looked, forwarded |-> r.forwarded,
                  server |-> IF r.forwarded THEN r.server ELSE "",
                  params |-> IF r.forwarded THEN r.params ELSE JsonNil,
                  ctxDone |-> cancelled, returned |-> ~r.forwarded, answer |-> NoAnswer])
          /\ IF r.forwarded
             THEN /\ pc' = "tool_wait"
                  /\ UNCHANGED result
             ELSE /\ result' = Aborted(ToolExecutionError(toolCall, iteration, r.err))
                  /\ pc' = "done"
    /\ Answer(endpoint)
    /\ UNCHANGED <<cfgIdx, servers, nextConn, addLog, reqBody, reqPath, reqMaxIter, reqModel,
                   catalogs, listing, listOrder,
                   lastReq, cancelled, endpoint, agent, toolServerMap, messages, iteration,
                   curResp, tcIdx, modelCalls, apiVars>>

\* what client.CallTool may return for the n-th tool call of a run.  The
\* context handed down is the gin context of the request (agent.go:163), which
\* is never done, so a caller that is gone changes nothing: the backend decides
CallOutcomes(n, ctxDone) == BackendOutcomes(n)

\* faulty variant: the budget is checked after the first tool call of an iteration
PendingToolCalls_OnlyFirst(toolCalls, idx) == FALSE

\* Agent.Run, the range over assistantMessage.ToolCalls: calls are left after
\* the one at position idx
PendingToolCalls(toolCalls, idx) == idx < Len(toolCalls)

\* Agent.Run: the backend answers the tool call; after the last call of the
\* range loop the loop continues with the next iteration
ToolCallStep ==
    /\ pc = "tool_wait"
    /\ \E outcome \in CallOutcomes(Len(toolLog), toolLog[Len(toolLog)].ctxDone) :
          LET toolCalls == curResp.choices[1].message.tool_calls
              toolCall == RangeToolCall(toolCalls, tcIdx)
              r == executeToolCall(toolServerMap, servers, toolCall, outcome)
          IN /\ toolLog' = [toolLog EXCEPT ![Len(toolLog)].returned = TRUE,
                                           ![Len(toolLog)].answer = outcome]
             /\ IF r.err # NoErr
                THEN /\ result' = Aborted(ToolExecutionError(toolCall, iteration, r.err))
                     /\ pc' = "done"
                     /\ UNCHANGED <<messages, iteration, tcIdx>>
                ELSE /\ messages' = Append(messages, ToolResultMessage(toolCall, r.content))
                     /\ IF PendingToolCalls(toolCalls, tcIdx)
                        THEN /\ tcIdx' = tcIdx + 1
                             /\ pc' = "tools"
                             /\ UNCHANGED <<iteration, result>>
                        ELSE /\ iteration' = iteration + 1
                             /\ LoopHead(agent, iteration + 1, result)
                             /\ UNCHANGED tcIdx
    /\ Answer(endpoint)
    /\ UNCHANGED <<cfgIdx, servers, nextConn, addLog, reqBody, reqPath, reqMaxIter, reqModel,
                   catalogs, listing, listOrder,
                   lastReq, cancelled, endpoint, agent, toolServerMap, curResp, modelCalls, apiVars>>

\* the caller gives up: the context of the request is cancelled while the
\* handler runs
Cancel ==
    /\ pc \in {"listing", "model", "model_wait", "tools", "tool_wait"}
    /\ ~cancelled
    /\ cancelled' = TRUE
    /\ UNCHANGED <<pc, cfgIdx, servers, nextConn, addLog, reqBody, reqPath, reqMaxIter, reqModel, catalogs,
                   listing, listOrder, lastReq, httpStatus, endpoint, httpBody, agent, toolServerMap,
                   messages, iteration, curResp, tcIdx, result, modelCalls, toolLog, apiVars>>

Next ==
    \/ AddServer \/ StartServing
    \/ RunAgent \/ StreamAgent \/ ReadinessCheck
    \/ ListToolsStep
    \/ ModelSend \/ ModelCall \/ ToolDispatch \/ ToolCallStep

Spec == Init /\ [][Next]_vars

\* the catalogs a tool manager may be built from: up to MaxCatalog entries,
\* any tool on any configured server
Catalogs ==
    UNION { [1..n -> { ToolWithServer(ToolDescriptor(t), sn) :
                         t \in ToolNames, sn \in Range(ServerConfigs) }] : n \in 0..MaxCatalog }

\* A ToolManager on its own, its build called again and again
InitRegistry ==
    /\ pc = "registry"
    /\ cfgIdx = 1
    /\ servers = NoMap
    /\ nextConn = 1
    /\ addLog = <<>>
    /\ reqMaxIter = 0
    /\ reqBody = Nil
    /\ reqPath = ""
    /\ reqModel = ""
    /\ catalogs = <<>>
    /\ listing = NoListing
    /\ listOrder = <<>>
    /\ lastReq = Nil
    /\ cancelled = FALSE
    /\ httpStatus = 0
    /\ endpoint = ""
    /\ httpBody = NoBody
    /\ poolCalls = <<>>
    /\ closeLog = <<>>
    /\ closeErr = NoErr
    /\ setLog = <<>>
    /\ other = Nil
    /\ agent = NoAgent
    /\ toolServerMap = NewToolManager
    /\ messages = <<>>
    /\ iteration = 0
    /\ curResp = Nil
    /\ tcIdx = 0
    /\ result = [resp |-> Nil, err |-> NoErr]
    /\ modelCalls = 0
    /\ toolLog = <<>>

\* tools := toolManager.ConvertMCPToolsToOpenAI(catalog), then SetTools(tools)
Build ==
    /\ pc = "registry"
    /\ Len(catalogs) < MaxBuilds
    /\ \E catalog \in Catalogs :
          LET conv == ConvertMCPToolsToOpenAI(toolServerMap, catalog) IN
          /\ toolServerMap' = conv.toolServerMap
          /\ agent' = SetTools(agent, conv.tools)
          /\ catalogs' = Append(catalogs, catalog)
    /\ UNCHANGED <<pc, cfgIdx, servers, nextConn, addLog, reqBody, reqPath, reqMaxIter, reqModel, listing, listOrder,
                   lastReq, cancelled, httpStatus, endpoint, httpBody, messages, iteration,
                   curResp, tcIdx, result, modelCalls, toolLog, apiVars>>

NextRegistry == Build

SpecRegistry == InitRegistry /\ [][NextRegistry]_vars

\* The client of the model gateway on its own: one call, answered in every
\* way the gateway can answer.

\* the body of an answer: text that is not JSON, or a JSON object, of which
\* the decoders see the error message and the choices
ReplyBody(json, raw, message, choices) ==
    [json |-> json, raw |-> raw, message |-> message, choices |-> choices]

ReplyBodies ==
    { ReplyBody(FALSE, "upstream unavailable", "", <<>>),
      ReplyBody(TRUE, "", "rate limited", <<>>) }
    \cup { ReplyBody(TRUE, "", "",
                     [k \in 1..n |-> Choice(k - 1, ChatMessage("assistant", ToString(3 + k), <<>>, ""),
                                            "stop")]) :
             n \in 0..MaxChoices }

\* the status codes the gateway answers with
Statuses == {200, 429, 500}

\* what one request meets: whether BlaxelClient.Run returned a response,
\* whether its body could be read, its status and its body
GatewayReplies ==
    [transport : BOOLEAN, readable : BOOLEAN, status : Statuses, body : ReplyBodies]

\* the errors of the client: its text, the status it names (0: none) and the
\* message it quotes
GatewayError(msg, status, text) == [msg |-> msg, status |-> status, text |-> text]

\* json.Unmarshal(body, &chatResp): fields the body does not have stay zero
DecodedCompletion(body) ==
    [id |-> "", object |-> "", created |-> 0, model |-> "", choices |-> body.choices,
     usage |-> Usage(0, 0, 0)]

\* Client.CreateChatCompletion, given how the one request it issues is answered
CreateChatCompletion(reply) ==
    LET Failed(e) == [resp |-> Nil, err |-> e, requests |-> 1] IN
    IF ~reply.transport
    THEN Failed(GatewayError("failed to create chat completion", 0, ""))
    ELSE IF ~reply.readable
    THEN Failed(GatewayError("failed to read response body", 0, ""))
    ELSE IF reply.status # 200
    THEN IF ~reply.body.json
         THEN Failed(GatewayError("API request failed with status", reply.status, reply.body.raw))
         ELSE Failed(GatewayError("API error", 0, reply.body.message))
    ELSE IF ~reply.body.json
    THEN Failed(GatewayError("failed to unmarshal response", 0, ""))
    ELSE [resp |-> DecodedCompletion(reply.body), err |-> NoErr, requests |-> 1]

\* Client.CreateSimpleCompletion
CreateSimpleCompletion(reply) ==
    LET r == CreateChatCompletion(reply) IN
    IF r.err # NoErr
    THEN [text |-> "", err |-> r.err, requests |-> r.requests]
    ELSE IF Len(r.resp.choices) = 0
    THEN [text |-> "", err |-> GatewayError("no choices returned in response", 0, ""),
          requests |-> r.requests]
    ELSE [text |-> r.resp.choices[1].message.content, err |-> NoErr, requests |-> r.requests]

InitGateway ==
    /\ pc = "gateway"
    /\ cfgIdx = 1
    /\ servers = NoMap
    /\ nextConn = 1
    /\ addLog = <<>>
    /\ reqBody = Nil
    /\ reqPath = ""
    /\ reqMaxIter = 0
    /\ reqModel = ""
    /\ catalogs = <<>>
    /\ listing = NoListing
    /\ listOrder = <<>>
    /\ lastReq = Nil
    /\ cancelled = FALSE
    /\ httpStatus = 0
    /\ endpoint = ""
    /\ httpBody = NoBody
    /\ poolCalls = <<>>
    /\ closeLog = <<>>
    /\ closeErr = NoErr
    /\ setLog = <<>>
    /\ other \in GatewayReplies
    /\ agent = NoAgent
    /\ toolServerMap = NoMap
    /\ messages = <<>>
    /\ iteration = 0
    /\ curResp = Nil
    /\ tcIdx = 0
    /\ result = [resp |-> Nil, err |-> NoErr]
    /\ modelCalls = 0
    /\ toolLog = <<>>

\* client.CreateChatCompletion(req), answered as other says
Complete ==
    /\ pc = "gateway"
    /\ pc' = "completed"
    /\ LET r == CreateChatCompletion(other) IN
          /\ result' = [resp |-> r.resp, err |-> r.err]
          /\ modelCalls' = modelCalls + r.requests
    /\ UNCHANGED <<cfgIdx, servers, nextConn, addLog, reqBody, reqPath, reqMaxIter, reqModel, catalogs,
                   listing, listOrder, lastReq, cancelled, httpStatus, endpoint, httpBody, agent,
                   toolServerMap, messages, iteration, curResp, tcIdx, toolLog, apiVars>>

\* client.CreateSimpleCompletion(prompt), answered as other says
SimpleComplete ==
    /\ pc = "gateway"
    /\ pc' = "simple"
    /\ LET r == CreateSimpleCompletion(other) IN
          /\ result' = [text |-> r.text, err |-> r.err]
          /\ modelCalls' = modelCalls + r.requests
    /\ UNCHANGED <<cfgIdx, servers, nextConn, addLog, reqBody, reqPath, reqMaxIter, reqModel, catalogs,
                   listing, listOrder, lastReq, cancelled, httpStatus, endpoint, httpBody, agent,
                   toolServerMap, messages, iteration, curResp, tcIdx, toolLog, apiVars>>

NextGateway == Complete \/ SimpleComplete

SpecGateway == InitGateway /\ [][NextGateway]_vars

\* An MCPManager on its own, under the calls its API allows
InitPool ==
    /\ pc = "pool"
    /\ cfgIdx = 1
    /\ servers = NoMap
    /\ nextConn = 1
    /\ addLog = <<>>
    /\ reqMaxIter = 0
    /\ reqBody = Nil
    /\ reqPath = ""
    /\ reqModel = ""
    /\ catalogs = <<>>
    /\ listing = NoListing
    /\ listOrder = <<>>
    /\ lastReq = Nil
    /\ cancelled = FALSE
    /\ httpStatus = 0
    /\ endpoint = ""
    /\ httpBody = NoBody
    /\ poolCalls = <<>>
    /\ closeLog = <<>>
    /\ closeErr = NoErr
    /\ setLog = <<>>
    /\ other = Nil
    /\ agent = NoAgent
    /\ toolServerMap = NoMap
    /\ messages = <<>>
    /\ iteration = 0
    /\ curResp = Nil
    /\ tcIdx = 0
    /\ result = [resp |-> Nil, err |-> NoErr]
    /\ modelCalls = 0
    /\ toolLog = <<>>

\* the server names a caller may pass: the configured ones and one that is
\* never registered
PoolNames == Range(ServerConfigs) \cup {"ghost"}

\* manager.AddServer(config) for any configured name
Register ==
    /\ pc = "pool"
    /\ Len(addLog) < MaxRegistrations
    /\ \E name \in Range(ServerConfigs), opened \in BOOLEAN :
          LET r == AddServerResult(name, opened) IN
          /\ servers' = r.servers
          /\ nextConn' = IF opened THEN nextConn + 1 ELSE nextConn
          /\ addLog' = Append(addLog, [name |-> name, opened |-> opened,
                                       conn |-> IF opened THEN nextConn ELSE 0])
    /\ UNCHANGED <<pc, cfgIdx, runVars, apiVars>>

\* manager.CallTool(ctx, serverName, toolName, params) for any server name
Invoke ==
    /\ pc = "pool"
    /\ Len(poolCalls) < MaxPoolCalls
    /\ \E serverName \in PoolNames, toolName \in ToolNames, outcome \in BackendOutcomes(1) :
          poolCalls' = Append(poolCalls,
              [serverName |-> serverName, toolName |-> toolName,
               registered |-> serverName \in DOMAIN servers,
               conn |-> IF serverName \in DOMAIN servers THEN servers[serverName] ELSE 0,
               outcome |-> outcome,
               ret |-> CallTool(servers, serverName, toolName, outcome)])
    /\ UNCHANGED <<pc, cfgIdx, servers, nextConn, addLog, runVars, closeLog, closeErr, setLog, other>>

\* manager.Close()
ClosePool ==
    /\ pc = "pool"
    /\ pc' = "closed"
    /\ \E order \in Orders(DOMAIN servers), outcome \in [DOMAIN servers -> BOOLEAN] :
          LET r == Close(order, outcome) IN
          /\ closeLog' = [i \in 1..Len(r.attempts) |->
                             [name |-> r.attempts[i], ok |-> outcome[r.attempts[i]]]]
          /\ closeErr' = r.lastErr
    /\ UNCHANGED <<cfgIdx, servers, nextConn, addLog, runVars, poolCalls, setLog, other>>

NextPool == Register \/ Invoke \/ ClosePool

SpecPool == InitPool /\ [][NextPool]_vars

\* An Agent on its own, under the calls its API allows: built by NewAgent over
\* a pool of one server, given its tools and tool manager, then configured and run
InitAgent ==
    /\ pc = "agent"
    /\ cfgIdx = 1
    /\ servers = ("blaxel-search" :> 1)
    /\ nextConn = 2
    /\ addLog = <<[name |-> "blaxel-search", opened |-> TRUE, conn |-> 1]>>
    /\ reqBody = Nil
    /\ reqPath = ""
    /\ reqMaxIter = 0
    /\ reqModel = ""
    /\ lastReq = Nil
    /\ cancelled = FALSE
    /\ httpStatus = 0
    /\ endpoint = ""
    /\ httpBody = NoBody
    /\ poolCalls = <<>>
    /\ closeLog = <<>>
    /\ closeErr = NoErr
    /\ setLog = <<>>
    /\ other = Nil
    /\ \E max \in ReqMaxIters, outcome \in ListingChoices({"blaxel-search"}) :
          LET mcpTools == ListAllTools(<<"blaxel-search">>, outcome)
              conv == ConvertMCPToolsToOpenAI(NewToolManager, mcpTools)
          IN /\ listing = outcome
             /\ listOrder = <<>>
             /\ catalogs = <<mcpTools>>
             /\ toolServerMap = conv.toolServerMap
             /\ agent = SetTools(NewAgent(Config("demo-agent", RouterDefaultModel,
                                                 RouterSystemPrompt, max)), conv.tools)
    /\ messages = <<>>
    /\ iteration = 0
    /\ curResp = Nil
    /\ tcIdx = 0
    /\ result = [resp |-> Nil, err |-> NoErr]
    /\ modelCalls = 0
    /\ toolLog = <<>>

\* agent.SetMaxIterations(max) for any integer the caller passes
CallSetMaxIterations ==
    /\ pc = "agent"
    /\ Len(setLog) < MaxSets
    /\ \E max \in ReqMaxIters :
          /\ agent' = SetMaxIterations(agent, max)
          /\ setLog' = Append(setLog, max)
    /\ UNCHANGED <<pc, cfgIdx, servers, nextConn, addLog, reqBody, reqPath, reqMaxIter, reqModel, catalogs,
                   listing, listOrder, lastReq, cancelled, httpStatus, endpoint, httpBody, toolServerMap,
                   messages, iteration, curResp, tcIdx, result, modelCalls, toolLog,
                   poolCalls, closeLog, closeErr, other>>

\* the prompts a caller passes to SetSystemPrompt
SetPrompts == {"Answer in French.", ""}

\* agent.SetSystemPrompt(prompt) for any string the caller passes
CallSetSystemPrompt ==
    /\ pc = "agent"
    /\ \E prompt \in SetPrompts : agent' = SetSystemPrompt(agent, prompt)
    /\ UNCHANGED <<pc, cfgIdx, servers, nextConn, addLog, reqBody, reqPath, reqMaxIter, reqModel,
                   catalogs, listing, listOrder, lastReq, cancelled, httpStatus, endpoint,
                   httpBody, toolServerMap, messages, iteration, curResp, tcIdx, result,
                   modelCalls, toolLog, apiVars>>

\* agent.Run(ctx, userInput) called directly: the conversation is started and
\* the loop condition evaluated for iteration 1
Run ==
    /\ pc = "agent"
    /\ messages' = <<ChatMessage("system", agent.systemPrompt, <<>>, ""),
                     ChatMessage("user", "2+2?", <<>>, "")>>
    /\ iteration' = 1
    /\ LoopHead(agent, 1, result)
    /\ UNCHANGED <<cfgIdx, servers, nextConn, addLog, reqBody, reqPath, reqMaxIter, reqModel, catalogs,
                   listing, listOrder, lastReq, cancelled, httpStatus, endpoint, httpBody, agent,
                   toolServerMap, curResp, tcIdx, modelCalls, toolLog, apiVars>>

NextAgent ==
    \/ CallSetMaxIterations
    \/ CallSetSystemPrompt
    \/ Run
    \/ ModelSend
    \/ ModelCall
    \/ ToolDispatch
    \/ ToolCallStep

SpecAgent == InitAgent /\ [][NextAgent]_vars

\* One Run of an agent built by NewAgent, with a gateway and backends that
\* answer every call: the loop's own steps are taken as long as they are
\* enabled, and every call sent returns.
NextRun ==
    \/ Run
    \/ ModelSend
    \/ ModelCall
    \/ ToolDispatch
    \/ ToolCallStep

SpecRunLive ==
    /\ InitAgent
    /\ [][NextRun]_vars
    /\ WF_vars(ModelSend)
    /\ WF_vars(ModelCall)
    /\ WF_vars(ToolDispatch)
    /\ WF_vars(ToolCallStep)

\* Two requests served at once.  The first is the run of the variables above;
\* the second is held in the record other and steps on its own.  Both handlers
\* read the same pool; each allocates its agent and its tool manager itself.

\* faulty variant: one tool manager is kept by the router and used by every request
ToolManagerOf_Singleton(req) == 1

\* agent.NewToolManager() in a handler: the object belongs to the request
\* whose handler allocated it (objects are named after that request)
ToolManagerOf(req) == req

\* the second request before its handler has run
NotStarted ==
    [pc |-> "serving", reqBody |-> Nil, listing |-> NoListing, listOrder |-> <<>>,
     agent |-> NoAgent, toolServerMap |-> NoMap, messages |-> <<>>,
     iteration |-> 0, curResp |-> Nil, tcIdx |-> 0, result |-> [resp |-> Nil, err |-> NoErr]]

\* faulty variant: the budget is counted down in the agent itself
RunAtHead_CountsDown(r, it, t1, t2) ==
    IF r.agent.maxIterations >= 1
    THEN [r EXCEPT !.pc = "model", !.iteration = it,
                   !.agent = [r.agent EXCEPT !.maxIterations = r.agent.maxIterations - 1]]
    ELSE [r EXCEPT !.pc = "done", !.iteration = it,
                   !.result = Completed(createMaxIterationsResponse(r.agent, t1, t2))]

\* Agent.Run, the loop condition for iteration it of the run r
RunAtHead(r, it, t1, t2) ==
    IF it <= r.agent.maxIterations
    THEN [r EXCEPT !.pc = "model", !.iteration = it]
    ELSE [r EXCEPT !.pc = "done", !.iteration = it,
                   !.result = Completed(createMaxIterationsResponse(r.agent, t1, t2))]

\* runAgent of the request r once ListAllTools has returned, up to the first
\* loop condition of Agent.Run
RunStarted(r, order, outcome, t1, t2) ==
    LET body == r.reqBody
        conv == ConvertMCPToolsToOpenAI(NewToolManager, ListAllTools(order, outcome))
        a == SetTools(NewAgent(Config("demo-agent", ModelOrDefault(body.model),
                                      PromptOrDefault(body.system_prompt),
                                      body.max_iterations)), conv.tools)
    IN RunAtHead([r EXCEPT !.listing = outcome,
                           !.listOrder = <<>>,
                           !.agent = a,
                           !.toolServerMap = conv.toolServerMap,
                           !.messages = <<ChatMessage("system", a.systemPrompt, <<>>, ""),
                                          ChatMessage("user", body.inputs, <<>>, "")>>],
                 1, t1, t2)

\* Agent.Run, one model call of the run r answered by an error
RunAfterModelError(r, e) ==
    [r EXCEPT !.pc = "done", !.curResp = Nil, !.result = Aborted(AIResponseError(r.iteration, e))]

\* Agent.Run, one model call of the run r answered by a completion
RunAfterModel(r, resp) ==
    IF Len(resp.choices) = 0
    THEN [r EXCEPT !.pc = "done", !.curResp = resp, !.result = Aborted(NoChoicesError(r.iteration))]
    ELSE LET assistantMessage == resp.choices[1].message
             appended == [r EXCEPT !.curResp = resp,
                                   !.messages = Append(r.messages, assistantMessage)]
         IN IF Len(assistantMessage.tool_calls) > 0
            THEN [appended EXCEPT !.pc = "tools", !.tcIdx = 1]
            ELSE [appended EXCEPT !.pc = "done", !.result = Completed(resp)]

\* Agent.Run, one tool call of the run r, routed by the map tsm
RunAfterTool(r, tsm, srvs, outcome, t1, t2) ==
    LET toolCalls == r.curResp.choices[1].message.tool_calls
        toolCall == RangeToolCall(toolCalls, r.tcIdx)
        x == executeToolCall(tsm, srvs, toolCall, outcome)
    IN IF x.err # NoErr
       THEN [r EXCEPT !.pc = "done",
                      !.result = Aborted(ToolExecutionError(toolCall, r.iteration, x.err))]
       ELSE LET appended == [r EXCEPT !.messages =
                                Append(r.messages, ToolResultMessage(toolCall, x.content))]
            IN IF r.tcIdx < Len(toolCalls)
               THEN [appended EXCEPT !.pc = "tools", !.tcIdx = r.tcIdx + 1]
               ELSE RunAtHead(appended, r.iteration + 1, t1, t2)

\* the two requests use one tool manager object
SharedToolManager == ToolManagerOf(1) = ToolManagerOf(2)

InitTwo ==
    /\ pc = "serving"
    /\ cfgIdx = Len(ServerConfigs) + 1
    /\ servers = ("blaxel-search" :> 1)
    /\ nextConn = 2
    /\ addLog = <<[name |-> "blaxel-search", opened |-> TRUE, conn |-> 1],
                  [name |-> "", opened |-> FALSE, conn |-> 0]>>
    /\ reqBody = Nil
    /\ reqPath = ""
    /\ reqMaxIter = 0
    /\ reqModel = ""
    /\ catalogs = <<>>
    /\ listing = NoListing
    /\ listOrder = <<>>
    /\ lastReq = Nil
    /\ cancelled = FALSE
    /\ httpStatus = 0
    /\ endpoint = ""
    /\ httpBody = NoBody
    /\ poolCalls = <<>>
    /\ closeLog = <<>>
    /\ closeErr = NoErr
    /\ setLog = <<>>
    /\ other = NotStarted
    /\ agent = NoAgent
    /\ toolServerMap = NoMap
    /\ messages = <<>>
    /\ iteration = 0
    /\ curResp = Nil
    /\ tcIdx = 0
    /\ result = [resp |-> Nil, err |-> NoErr]
    /\ modelCalls = 0
    /\ toolLog = <<>>

\* the bodies of the two concurrent requests
TwoBodies == { b \in Requests : b.max_iterations = 1 /\ b.model = "" /\ b.system_prompt = "" }

\* the first request arrives on the run-agent route
FirstRequest == ServeAgent("run", {"/agent"} \X TwoBodies)

\* everything but the second request
soloVars == <<pc, cfgIdx, servers, nextConn, addLog, reqBody, reqPath, reqMaxIter, reqModel, catalogs,
              listing, listOrder, lastReq, cancelled, httpStatus, endpoint, httpBody, agent, toolServerMap,
              messages, iteration, curResp, tcIdx, result, modelCalls, toolLog,
              poolCalls, closeLog, closeErr, setLog>>

\* what the second request leaves alone: everything of the first, but for the
\* routing map when both requests use one tool manager
SecondLeaves ==
    UNCHANGED <<pc, cfgIdx, servers, nextConn, addLog, reqBody, reqPath, reqMaxIter, reqModel, catalogs,
                listing, listOrder, lastReq, cancelled, httpStatus, endpoint, httpBody, agent,
                messages, iteration, curResp, tcIdx, result, modelCalls, toolLog,
                poolCalls, closeLog, closeErr, setLog>>

\* the routing map the second run reads
SecondToolServerMap == IF SharedToolManager THEN toolServerMap ELSE other.toolServerMap

\* the second request enters Agent.Run: its handler has built its tool manager
SecondEntersRun(r) ==
    /\ other' = r
    /\ IF SharedToolManager
       THEN toolServerMap' = r.toolServerMap
       ELSE UNCHANGED toolServerMap

\* the second request arrives on the run-agent route: its handler binds the
\* body and calls ListAllTools, which asks the first server for its tools;
\* with no server in the pool the handler goes on into Agent.Run
SecondRequest ==
    /\ pc # "startup"
    /\ other.pc = "serving"
    /\ \E body \in TwoBodies :
          /\ ShouldBindJSON(body).ok
          /\ IF DOMAIN servers = {}
             THEN \E t1 \in Times : \E t2 \in t1..MaxTime :
                     SecondEntersRun(RunStarted([other EXCEPT !.reqBody = body],
                                                <<>>, NoListing, t1, t2))
             ELSE /\ other' = [other EXCEPT !.pc = "listing", !.reqBody = body]
                  /\ UNCHANGED toolServerMap
    /\ SecondLeaves

\* ListAllTools of the second request, one turn of its range over m.servers;
\* after the last server the handler builds its agent and enters Agent.Run
SecondListTools ==
    /\ other.pc = "listing"
    /\ \E serverName \in DOMAIN servers \ Range(other.listOrder),
          answer \in UNION { ListOutcomes(n) : n \in DOMAIN servers } :
          LET order == Append(other.listOrder, serverName)
              outcome == [n \in DOMAIN other.listing \cup {serverName} |->
                             IF n = serverName THEN answer ELSE other.listing[n]]
          IN /\ answer \in ListOutcomes(serverName)
             /\ IF Len(order) < Cardinality(DOMAIN servers)
                THEN /\ other' = [other EXCEPT !.listing = outcome, !.listOrder = order]
                     /\ UNCHANGED toolServerMap
                ELSE \E t1 \in Times : \E t2 \in t1..MaxTime :
                        SecondEntersRun(RunStarted(other, order, outcome, t1, t2))
    /\ SecondLeaves

\* the second run sends its request to the model
SecondModelSend ==
    /\ other.pc = "model"
    /\ other' = [other EXCEPT !.pc = "model_wait"]
    /\ SecondLeaves
    /\ UNCHANGED toolServerMap

\* the gateway answers the second run's request
SecondModelCall ==
    /\ other.pc = "model_wait"
    /\ \/ \E e \in GatewayErrors : other' = RunAfterModelError(other, e)
       \/ \E resp \in ModelResponses(VariedCalls) : other' = RunAfterModel(other, resp)
    /\ SecondLeaves
    /\ UNCHANGED toolServerMap

\* the second run's next tool call enters executeToolCall: it fails before
\* any backend is reached, or it is handed to the backend
SecondToolDispatch ==
    /\ other.pc = "tools"
    /\ LET toolCall == RangeToolCall(other.curResp.choices[1].message.tool_calls, other.tcIdx)
           x == executeToolCall(SecondToolServerMap, servers, toolCall, NoAnswer)
       IN IF x.forwarded
          THEN other' = [other EXCEPT !.pc = "tool_wait"]
          ELSE other' = RunAfterTool(other, SecondToolServerMap, servers, NoAnswer, 0, 0)
    /\ SecondLeaves
    /\ UNCHANGED toolServerMap

\* the backend answers the second run's tool call
SecondToolCall ==
    /\ other.pc = "tool_wait"
    /\ \E outcome \in BackendOutcomes(VariedCalls + 1), t1 \in Times :
          \E t2 \in t1..MaxTime :
             other' = RunAfterTool(other, SecondToolServerMap, servers, outcome, t1, t2)
    /\ SecondLeaves
    /\ UNCHANGED toolServerMap

NextTwo ==
    \/ FirstRequest
    \/ ListToolsStep
    \/ ModelSend
    \/ ModelCall
    \/ ToolDispatch
    \/ ToolCallStep
    \/ SecondRequest
    \/ SecondListTools
    \/ SecondModelSend
    \/ SecondModelCall
    \/ SecondToolDispatch
    \/ SecondToolCall

SpecTwo == InitTwo /\ [][NextTwo]_vars

\* the same process with a caller that may cancel the request
NextCancel == Next \/ Cancel

SpecCancel == Init /\ [][NextCancel]_vars

----------------------------------------------------------------------------
(* Properties of the agent loop *)

HasChoice(resp) == resp # Nil /\ Len(resp.choices) > 0

\* the tool calls the last completion asked for
RequestedCalls == curResp.choices[1].message.tool_calls

\* the positions of the assistant messages of a conversation, in order
AssistantPositions(msgs) ==
    SelectSeq([i \in DOMAIN msgs |-> i], LAMBDA i : msgs[i].role = "assistant")

\* position of the n-th assistant message of a conversation
AssistantPos(msgs, n) == AssistantPositions(msgs)[n]

\* number of messages that follow the last assistant message
TrailingMessages(msgs) ==
    Len(msgs) - AssistantPos(msgs, Cardinality({j \in DOMAIN msgs : msgs[j].role = "assistant"}))

\* every assistant message with k tool calls is followed by exactly k tool
\* messages, the j-th answering the j-th call
WellFormedConversation(msgs) ==
    \A i \in DOMAIN msgs :
        /\ msgs[i].role = "assistant" =>
              LET k == Len(msgs[i].tool_calls) IN
              /\ i + k <= Len(msgs)
              /\ \A j \in 1..k : /\ msgs[i + j].role = "tool"
                                 /\ msgs[i + j].tool_call_id = msgs[i].tool_calls[j].id
              /\ i + k < Len(msgs) => msgs[i + k + 1].role = "assistant"
        /\ msgs[i].role = "tool" =>
              \E a \in 1..(i - 1) : /\ msgs[a].role = "assistant"
                                    /\ i - a <= Len(msgs[a].tool_calls)
                                    /\ \A m \in (a + 1)..i : msgs[m].role = "tool"

\* the response synthesized when the iteration budget is used up
IsExhaustedResponse(resp) ==
    /\ Len(resp.choices) = 1
    /\ resp.choices[1].message.role = "assistant"
    /\ resp.choices[1].finish_reason = "length"
    /\ resp.usage.prompt_tokens = 0
    /\ resp.usage.completion_tokens = 0
    /\ resp.usage.total_tokens = 0

\* the run was aborted by the i-th executeToolCall: nothing was executed after
\* it, no model call followed, no response is returned and the conversation
\* holds the tool messages of the earlier calls of that message only
AbortedAt(i) ==
    /\ i = Len(toolLog)
    /\ pc = "done"
    /\ result.resp = Nil
    /\ result.err # NoErr
    /\ result.err.msg = "failed to execute tool"
    /\ result.err.tool = toolLog[i].call.name
    /\ result.err.iteration = toolLog[i].iteration
    /\ modelCalls = toolLog[i].iteration
    /\ TrailingMessages(messages) = toolLog[i].index - 1

\* C1: every conversation sent to the model, and the one held at a successful
\* return, has after each assistant message with k tool calls exactly k tool
\* messages, the i-th carrying the id of the i-th tool call.
C1_ToolMessagesAnswerToolCalls ==
    (pc = "model" \/ (pc = "done" /\ result.err = NoErr)) => WellFormedConversation(messages)

C1_Witness ==
    /\ pc = "model"
    /\ iteration = 3
    /\ \E i \in DOMAIN messages : Len(messages[i].tool_calls) = 2

\* C2: a completion without tool calls at iteration n ends the run after
\* exactly n model calls with exactly that completion and no error; at n = 1
\* no tool was invoked.
C2_NoToolCallsReturnsThatResponse ==
    (HasChoice(curResp) /\ Len(RequestedCalls) = 0) =>
        /\ pc = "done"
        /\ result.resp = curResp
        /\ result.err = NoErr
        /\ modelCalls = iteration
        /\ iteration <= agent.maxIterations
        /\ iteration = 1 => toolLog = <<>>

C2_Witness ==
    /\ pc = "done"
    /\ HasChoice(curResp)
    /\ Len(RequestedCalls) = 0
    /\ modelCalls = 3
    /\ result.resp.usage.total_tokens = 15

\* every completion of the run asked for at least one tool call
AlwaysToolCalls ==
    /\ modelCalls >= 1
    /\ HasChoice(curResp)
    /\ \A i \in DOMAIN messages : messages[i].role = "assistant" => Len(messages[i].tool_calls) > 0

\* every executed tool call was answered by its backend without error
AllToolCallsSucceeded ==
    \A i \in DOMAIN toolLog : toolLog[i].forwarded /\ toolLog[i].answer.ok

\* C3: with max_iterations = N, when every completion asks for a tool call and
\* every tool call succeeds, the run makes exactly N model calls and returns
\* without error the response with finish_reason "length" and zero usage.
C3_ExhaustedAfterMaxIterations ==
    /\ (AlwaysToolCalls /\ AllToolCallsSucceeded) => modelCalls <= agent.maxIterations
    /\ (pc = "done" /\ AlwaysToolCalls /\ AllToolCallsSucceeded) =>
          /\ modelCalls = agent.maxIterations
          /\ result.err = NoErr
          /\ IsExhaustedResponse(result.resp)

C3_Witness ==
    /\ pc = "done"
    /\ AlwaysToolCalls
    /\ AllToolCallsSucceeded
    /\ reqMaxIter = 2
    /\ modelCalls = 2
    /\ Len(toolLog) = 3

\* C4: a request with max_iterations = 0 runs with a budget of 10: the first
\* model call is always made and exhaustion comes only after 10 model calls.
C4_ZeroMaxIterationsRunsTen ==
    (pc \in {"model", "model_wait", "tools", "tool_wait", "done"} /\ reqMaxIter = 0) =>
        /\ agent.maxIterations = 10
        /\ pc = "done" => modelCalls >= 1
        /\ (pc = "done" /\ result.err = NoErr /\ IsExhaustedResponse(result.resp)) => modelCalls = 10

C4_Witness ==
    /\ pc = "done"
    /\ reqMaxIter = 0
    /\ result.err = NoErr
    /\ IsExhaustedResponse(result.resp)
    /\ modelCalls = 10

\* C5: a backend error on a tool invocation aborts the run at once: error and
\* no response, no tool message for the call, no later call of the message
\* executed, no further model call.
C5_BackendErrorAbortsRun ==
    \A i \in DOMAIN toolLog :
        (toolLog[i].forwarded /\ toolLog[i].returned /\ ~toolLog[i].answer.ok) =>
            /\ AbortedAt(i)
            /\ result.err.cause.msg = "failed to call tool"
            /\ \A m \in DOMAIN messages :
                  messages[m].role = "tool" =>
                      \E j \in 1..(i - 1) : /\ toolLog[j].answer.ok
                                            /\ messages[m].content = JsonMarshal(toolLog[j].answer.content)

C5_Witness ==
    /\ pc = "done"
    /\ toolLog # <<>>
    /\ toolLog[Len(toolLog)].forwarded
    /\ ~toolLog[Len(toolLog)].answer.ok
    /\ toolLog[Len(toolLog)].index < Len(RequestedCalls)

\* C6: a failed model call at iteration n aborts the run with an error that
\* carries n and wraps the cause, without a response and without any further
\* model or tool call.
C6_GatewayFailureAbortsRun ==
    (modelCalls >= 1 /\ pc # "model_wait" /\ curResp = Nil) =>
        /\ pc = "done"
        /\ result.resp = Nil
        /\ result.err.msg = "failed to get AI response"
        /\ result.err.iteration = modelCalls
        /\ result.err.cause \in GatewayErrors
        /\ iteration = modelCalls
        /\ \A i \in DOMAIN toolLog : toolLog[i].iteration < modelCalls

C6_Witness ==
    /\ modelCalls = 3
    /\ curResp = Nil
    /\ pc = "done"
    /\ Len(toolLog) = 3
    /\ result.err.cause.msg = "API error"

\* C7: a completion with zero choices at iteration n aborts the run with the
\* no-choices error carrying n and without a response.
C7_NoChoicesAbortsRun ==
    (curResp # Nil /\ Len(curResp.choices) = 0) =>
        /\ pc = "done"
        /\ result.resp = Nil
        /\ result.err # NoErr
        /\ result.err.msg = "no response choices returned"
        /\ result.err.iteration = modelCalls
        /\ iteration = modelCalls
        /\ \A i \in DOMAIN toolLog : toolLog[i].iteration < modelCalls

C7_Witness ==
    /\ curResp # Nil
    /\ Len(curResp.choices) = 0
    /\ pc = "done"
    /\ modelCalls = 2
    /\ Len(toolLog) = 2

\* argument strings that are not empty and not JSON: {"s": and {}}
MalformedArguments == { <<"{", "s", ":">>, <<"{", "}", "}">> }

\* C8: a pending call with non-empty arguments that are not JSON aborts the
\* run with the argument-parse error: the tool manager is not asked, no
\* backend is invoked, no later call is executed and no model call follows.
C8_MalformedArgumentsAbortRun ==
    \A i \in DOMAIN toolLog :
        toolLog[i].call.arguments \in MalformedArguments =>
            /\ AbortedAt(i)
            /\ result.err.cause.msg = "failed to parse tool arguments"
            /\ ~toolLog[i].looked
            /\ ~toolLog[i].forwarded

C8_Witness ==
    /\ pc = "done"
    /\ toolLog # <<>>
    /\ toolLog[Len(toolLog)].call.arguments = <<"{", "}", "}">>
    /\ toolLog[Len(toolLog)].call.name \in DOMAIN toolServerMap
    /\ toolLog[Len(toolLog)].index < Len(RequestedCalls)

\* C9: empty arguments are not an error: the call is routed, a routable tool
\* is invoked on its server with no arguments, and when the backend succeeds
\* the tool message of the call is in the conversation at the call's place.
C9_EmptyArgumentsAreNoArguments ==
    \A i \in DOMAIN toolLog :
        toolLog[i].call.arguments = <<>> =>
            /\ toolLog[i].looked
            /\ toolLog[i].call.name \in DOMAIN toolServerMap =>
                  /\ toolLog[i].forwarded
                  /\ toolLog[i].server = toolServerMap[toolLog[i].call.name]
                  /\ toolLog[i].params = JsonNil
            /\ (toolLog[i].forwarded /\ toolLog[i].answer.ok) =>
                  LET pos == AssistantPos(messages, toolLog[i].iteration) + toolLog[i].index IN
                  /\ pos <= Len(messages)
                  /\ messages[pos].role = "tool"
                  /\ messages[pos].tool_call_id = toolLog[i].call.id
            /\ (i = Len(toolLog) /\ pc = "done" /\ result.err # NoErr
                  /\ result.err.msg = "failed to execute tool") =>
                  result.err.cause.msg # "failed to parse tool arguments"

C9_Witness ==
    /\ pc = "model"
    /\ Len(toolLog) = 1
    /\ toolLog[1].call.arguments = <<>>
    /\ toolLog[1].forwarded
    /\ toolLog[1].answer.ok
    /\ toolLog[1].params = JsonNil
    /\ messages[Len(messages)].role = "tool"

\* C10 as stated: a call naming a tool without an entry in the tool manager
\* aborts the run with the no-server error for that tool, no backend invoked.
C10_UnroutableToolAborts_AsStated ==
    \A i \in DOMAIN toolLog :
        toolLog[i].call.name \notin DOMAIN toolServerMap =>
            /\ AbortedAt(i)
            /\ result.err.cause.msg = "no server found for tool"
            /\ result.err.cause.tool = toolLog[i].call.name
            /\ ~toolLog[i].forwarded

\* C10: a call whose arguments are empty or JSON and whose tool has no entry
\* in the tool manager aborts the run with the no-server error naming the
\* tool; no backend is invoked for it and no model call follows.
C10_UnroutableToolAborts ==
    \A i \in DOMAIN toolLog :
        (/\ toolLog[i].call.name \notin DOMAIN toolServerMap
         /\ toolLog[i].call.arguments \notin MalformedArguments) =>
            /\ AbortedAt(i)
            /\ toolLog[i].looked
            /\ result.err.cause.msg = "no server found for tool"
            /\ result.err.cause.tool = toolLog[i].call.name
            /\ ~toolLog[i].forwarded

C10_Witness ==
    /\ pc = "done"
    /\ Len(toolLog) = 2
    /\ toolLog[2].call.name = "unknown_tool"
    /\ toolLog[2].call.arguments = <<"{", "s", ":", "s", "}">>
    /\ toolLog[2].index = 2
    /\ "" \in DOMAIN servers

----------------------------------------------------------------------------
(* Order of the backend invocations *)

\* the tool calls the model asked for at the given iteration
ToolCallsOf(it) == messages[AssistantPos(messages, it)].tool_calls

\* the backend invocations among the first i executeToolCall calls that
\* belong to the given iteration
InvokedUpTo(i, it) ==
    { j \in 1..i : toolLog[j].forwarded /\ toolLog[j].iteration = it }

\* C11: the backend invocations of an iteration are, in order, a prefix of the
\* tool calls of that iteration's assistant message (the j-th invocation is the
\* j-th requested call, nothing else is invoked, nothing twice), an invocation
\* is dispatched only when every earlier one has returned, and no request to
\* the model is in flight while a backend invocation is.
C11_InvocationsSequentialInOrder ==
    /\ \A i \in DOMAIN toolLog :
          /\ toolLog[i].iteration \in 1..Cardinality({m \in DOMAIN messages : messages[m].role = "assistant"})
          /\ toolLog[i].forwarded =>
                LET k == Cardinality(InvokedUpTo(i, toolLog[i].iteration)) IN
                /\ k <= Len(ToolCallsOf(toolLog[i].iteration))
                /\ toolLog[i].call = ToolCallsOf(toolLog[i].iteration)[k]
          /\ i < Len(toolLog) => /\ toolLog[i].returned
                                 /\ toolLog[i].iteration <= toolLog[i + 1].iteration
    /\ (toolLog # <<>> /\ ~toolLog[Len(toolLog)].returned) => pc = "tool_wait"
    /\ pc = "model_wait" => \A i \in DOMAIN toolLog : toolLog[i].returned

C11_Witness ==
    /\ pc = "tool_wait"
    /\ Len(toolLog) = 2
    /\ toolLog[1].iteration = 1
    /\ toolLog[2].iteration = 1
    /\ toolLog[1].forwarded /\ toolLog[1].returned
    /\ toolLog[2].forwarded /\ ~toolLog[2].returned
    /\ toolLog[1].call.name # toolLog[2].call.name

----------------------------------------------------------------------------
(* Cancellation of the request *)

\* C12: when the context of the caller is done while a run is in progress, the
\* next request to the model or the next tool call ends the run: no further
\* iteration is started and the run returns an error, not a completion.
C12_CancellationEndsRun ==
    /\ (lastReq # Nil /\ lastReq.ctxDone /\ pc # "model_wait") =>
          /\ pc = "done"
          /\ result.resp = Nil
          /\ result.err # NoErr
    /\ \A i \in DOMAIN toolLog :
          (toolLog[i].ctxDone /\ toolLog[i].returned) =>
              /\ pc = "done"
              /\ i = Len(toolLog)
              /\ result.resp = Nil
              /\ result.err # NoErr

----------------------------------------------------------------------------
(* The tool message of a successful invocation *)

\* the JSON text of the content lists the backends of the model return
SerializedContent(content) ==
    IF content = NilSlice THEN "null"
    ELSE IF content = Slice(<<>>) THEN "[]"
    ELSE IF content = Slice(<<"60">>) THEN "[{\"type\":\"text\",\"text\":\"60\"}]"
    ELSE "unexpected"

\* the i-th executeToolCall was answered by its backend without error
Succeeded(i) == toolLog[i].forwarded /\ toolLog[i].returned /\ toolLog[i].answer.ok

\* C13: for every successful tool invocation the tool message appended for it
\* carries the serialization of the content the backend returned for that very
\* call and the id of that call, and the loop goes on with the next call of the
\* message or, after the last one, with the next iteration.
C13_ToolMessageCarriesOwnResult ==
    \A i \in DOMAIN toolLog :
        Succeeded(i) =>
            LET it == toolLog[i].iteration
                k == toolLog[i].index
                pos == AssistantPos(messages, it) + k
                last == k = Len(ToolCallsOf(it))
            IN /\ pos <= Len(messages)
               /\ messages[pos].role = "tool"
               /\ messages[pos].content = SerializedContent(toolLog[i].answer.content)
               /\ messages[pos].tool_call_id = toolLog[i].call.id
               /\ toolLog[i].call = ToolCallsOf(it)[k]
               /\ i < Len(toolLog) =>
                     IF last THEN toolLog[i + 1].iteration = it + 1 /\ toolLog[i + 1].index = 1
                     ELSE toolLog[i + 1].iteration = it /\ toolLog[i + 1].index = k + 1
               /\ (i = Len(toolLog) /\ ~last) =>
                     pc = "tools" /\ iteration = it /\ tcIdx = k + 1
               /\ (i = Len(toolLog) /\ last) =>
                     /\ iteration = it + 1
                     /\ IF it + 1 <= agent.maxIterations
                        THEN pc = "model" \/ modelCalls = it + 1
                        ELSE pc = "done" /\ modelCalls = it /\ IsExhaustedResponse(result.resp)

\* two successful invocations of one iteration with different results, then a
\* further iteration
C13_Witness ==
    /\ Len(toolLog) >= 2
    /\ Succeeded(1) /\ Succeeded(2)
    /\ toolLog[1].iteration = 1 /\ toolLog[2].iteration = 1
    /\ toolLog[1].answer.content # toolLog[2].answer.content
    /\ messages[4].content = SerializedContent(Slice(<<"60">>))
    /\ messages[5].content = "[]"
    /\ modelCalls = 2

----------------------------------------------------------------------------
(* The requests sent to the model *)

\* C14: every request the loop sends to the model is made for the model of the
\* agent config (the model of the request body, or the default when the body
\* names none), and carries the tool list of the run at every iteration.
C14_RequestsUseConfiguredModel ==
    lastReq # Nil =>
        /\ agent.model = ModelOrDefault(reqModel)
        /\ lastReq.body.Model = agent.model \/ lastReq.deployment = agent.model
        /\ lastReq.body.Tools = agent.tools
        /\ lastReq.body.Tools = ConvertMCPToolsToOpenAI(NoMap, catalogs[Len(catalogs)]).tools

----------------------------------------------------------------------------
(* The routing map of the tool manager *)

\* the catalog passed to the most recent build
LastCatalog == catalogs[Len(catalogs)]

\* the tool names of a catalog
CatalogNames(catalog) == { catalog[i].Tool.name : i \in DOMAIN catalog }

\* the names a lookup is made for
LookupNames == ToolNames \cup CallNames \cup Range(ServerConfigs)

\* C15: after any sequence of builds the routing map has no entry for a name
\* that is absent from the catalog of the most recent build: a name of an
\* earlier catalog only is not found.
C15_NoStaleRoutes ==
    catalogs # <<>> =>
        \A name \in LookupNames :
            name \notin CatalogNames(LastCatalog) => ~GetServerForTool(toolServerMap, name).exists

C15_Witness ==
    /\ pc = "registry"
    /\ Len(catalogs) = 2
    /\ "search" \in CatalogNames(catalogs[1])
    /\ "search" \notin CatalogNames(catalogs[2])
    /\ "get_weather" \in CatalogNames(catalogs[2])
    /\ ~GetServerForTool(toolServerMap, "search").exists

\* C16: after a build the routing map agrees with exactly that catalog: a name
\* is found if and only if an entry of the catalog has it, and the server
\* returned is the server of an entry with that name; before any build every
\* lookup is not found.
C16_RoutesMatchCatalog ==
    \A name \in LookupNames :
        LET route == GetServerForTool(toolServerMap, name) IN
        IF catalogs = <<>>
        THEN ~route.exists
        ELSE /\ route.exists <=> name \in CatalogNames(LastCatalog)
             /\ route.exists =>
                   \E i \in DOMAIN LastCatalog : /\ LastCatalog[i].Tool.name = name
                                                  /\ LastCatalog[i].ServerName = route.serverName

C16_Witness ==
    /\ pc = "registry"
    /\ Len(catalogs) = 1
    /\ Len(LastCatalog) = 2
    /\ GetServerForTool(toolServerMap, "search") = [serverName |-> "blaxel-search", exists |-> TRUE]
    /\ GetServerForTool(toolServerMap, "get_weather") = [serverName |-> "", exists |-> TRUE]
    /\ ~GetServerForTool(toolServerMap, "unknown_tool").exists

\* C17: when several entries of the catalog carry the same tool name on
\* different servers, the lookup returns the server of the last of them.
C17_LastEntryWins ==
    catalogs # <<>> =>
        \A i \in DOMAIN LastCatalog :
            (\A j \in DOMAIN LastCatalog : j > i => LastCatalog[j].Tool.name # LastCatalog[i].Tool.name) =>
                GetServerForTool(toolServerMap, LastCatalog[i].Tool.name) =
                    [serverName |-> LastCatalog[i].ServerName, exists |-> TRUE]

C17_Witness ==
    /\ pc = "registry"
    /\ catalogs # <<>>
    /\ Len(LastCatalog) = 2
    /\ LastCatalog[1].Tool.name = "search" /\ LastCatalog[1].ServerName = ""
    /\ LastCatalog[2].Tool.name = "search" /\ LastCatalog[2].ServerName = "blaxel-search"
    /\ GetServerForTool(toolServerMap, "search").serverName = "blaxel-search"

----------------------------------------------------------------------------
(* Listing the tools of the pool *)

\* the handler has listed the tools of the pool
Listed == pc \in {"model", "model_wait", "tools", "tool_wait", "done"}

\* the entries of a catalog that carry the given server name, in order
EntriesOf(catalog, serverName) == SelectSeq(catalog, LAMBDA e : e.ServerName = serverName)

\* the servers whose ListTools succeeded and returned a tool of the given name
ListersOf(name) ==
    { sn \in DOMAIN listing :
        listing[sn].ok /\ \E i \in DOMAIN listing[sn].tools : listing[sn].tools[i].name = name }

\* C18: when a registered server fails to list its tools, the catalog holds
\* exactly the tools of the servers whose listing succeeded, each with the name
\* of its own server and none from a failed server, and the map built from it
\* routes each of these tools to the server that listed it.
C18_FailedListingIsSkipped ==
    (Listed /\ \E sn \in DOMAIN listing : ~listing[sn].ok) =>
        /\ DOMAIN listing = DOMAIN servers
        /\ \A sn \in DOMAIN listing :
              EntriesOf(LastCatalog, sn) =
                  IF listing[sn].ok
                  THEN [i \in 1..Len(listing[sn].tools) |-> ToolWithServer(listing[sn].tools[i], sn)]
                  ELSE <<>>
        /\ \A i \in DOMAIN LastCatalog :
              LET e == LastCatalog[i]
                  route == GetServerForTool(toolServerMap, e.Tool.name)
              IN /\ e.ServerName \in DOMAIN listing
                 /\ listing[e.ServerName].ok
                 /\ route.exists
                 /\ route.serverName \in ListersOf(e.Tool.name)
                 /\ ListersOf(e.Tool.name) = {e.ServerName} => route.serverName = e.ServerName

C18_Witness ==
    /\ Listed
    /\ DOMAIN listing = {"blaxel-search", ""}
    /\ listing["blaxel-search"].ok
    /\ ~listing[""].ok
    /\ Len(LastCatalog) = 1
    /\ GetServerForTool(toolServerMap, "search") = [serverName |-> "blaxel-search", exists |-> TRUE]
    /\ ~GetServerForTool(toolServerMap, "get_weather").exists

\* C19: listing the tools never fails, whatever servers fail to list: the
\* handler always goes on to the run, and when every registered server fails
\* (or none is registered) the catalog is empty and the run sends its request
\* to the model with no tools.
C19_ListingNeverFails ==
    /\ pc # "failed"
    /\ Listed =>
           /\ catalogs # <<>>
           /\ Len(messages) >= 2
           /\ pc # "model" => (modelCalls >= 1 /\ lastReq # Nil)
           /\ httpStatus = 500 => (pc = "done" /\ result.err # NoErr)
           /\ (\A sn \in DOMAIN listing : ~listing[sn].ok) =>
                 /\ LastCatalog = <<>>
                 /\ agent.tools = <<>>
                 /\ \A name \in LookupNames : ~GetServerForTool(toolServerMap, name).exists
                 /\ lastReq # Nil => lastReq.body.Tools = <<>>

C19_Witness ==
    /\ pc = "model_wait"
    /\ DOMAIN listing = {"blaxel-search", ""}
    /\ \A sn \in DOMAIN listing : ~listing[sn].ok
    /\ LastCatalog = <<>>
    /\ modelCalls = 1
    /\ lastReq.body.Tools = <<>>

----------------------------------------------------------------------------
(* Registration of the backends at startup *)

\* the AddServer calls that opened a connection
Opened == { i \in DOMAIN addLog : addLog[i].opened }

\* C20: an AddServer that fails to open its connection leaves the servers map
\* as it was (the server is not added, no entry is removed or replaced), and
\* startup goes on to register the remaining configured servers.
C20_FailedRegistrationLeavesPool ==
    /\ cfgIdx = Len(addLog) + 1
    /\ \A i \in DOMAIN addLog : addLog[i].name = ServerConfigs[i]
    /\ pc # "startup" => Len(addLog) = Len(ServerConfigs)
    /\ DOMAIN servers = { addLog[i].name : i \in Opened }
    /\ \A i \in Opened : servers[addLog[i].name] = addLog[i].conn
    /\ \A i \in DOMAIN addLog \ Opened : addLog[i].name \notin DOMAIN servers

C20_Witness ==
    /\ pc = "serving"
    /\ Len(addLog) = 2
    /\ ~addLog[1].opened
    /\ addLog[2].opened
    /\ DOMAIN servers = {""}
    /\ servers[""] = 1

----------------------------------------------------------------------------
(* The MCP manager *)

\* C21: CallTool with a server name that is not registered fails with the
\* not-found error and reaches no connection; with a registered name it hands
\* the call to the connection of that server and to no other, and returns what
\* that backend answered, its result or its error.
C21_CallToolRoutesByName ==
    \A i \in DOMAIN poolCalls :
        LET c == poolCalls[i] IN
        IF ~c.registered
        THEN /\ ~c.ret.ok
             /\ ~c.ret.forwarded
             /\ c.ret.conn = 0
             /\ c.ret.err.msg = "MCP server not found"
             /\ c.ret.err.tool = c.serverName
        ELSE /\ c.ret.forwarded
             /\ c.ret.conn = c.conn
             /\ c.ret.ok = c.outcome.ok
             /\ c.outcome.ok => (c.ret.content = c.outcome.content /\ c.ret.err = NoErr)
             /\ ~c.outcome.ok => c.ret.err = BackendError

C21_Witness ==
    /\ pc = "pool"
    /\ DOMAIN servers = {"blaxel-search"}
    /\ Len(poolCalls) = 1
    /\ poolCalls[1].serverName = "ghost"
    /\ ~poolCalls[1].ret.forwarded
    /\ poolCalls[1].ret.err.msg = "MCP server not found"

\* the error's text names the given identifier at some level of its chain
RECURSIVE Mentions(_, _)
Mentions(e, name) ==
    /\ e # NoErr
    /\ (e.tool = name \/ Mentions(e.cause, name))

\* C22: when a registered backend answers a tool invocation with an error, the
\* error the run returns names both the tool and the backend of the failed call.
C22_ErrorNamesBackendAndTool ==
    (/\ pc = "done"
     /\ toolLog # <<>>
     /\ toolLog[Len(toolLog)].forwarded
     /\ toolLog[Len(toolLog)].returned
     /\ ~toolLog[Len(toolLog)].answer.ok)
    => /\ Mentions(result.err, toolLog[Len(toolLog)].call.name)
       /\ Mentions(result.err, toolLog[Len(toolLog)].server)

\* the close that failed last, in the order the connections were closed
LastFailed == CHOOSE i \in DOMAIN closeLog :
                 ~closeLog[i].ok /\ \A j \in DOMAIN closeLog : j > i => closeLog[j].ok

\* C23: Close closes every connection of the pool exactly once, whatever the
\* earlier closes answered; it returns nil when every close succeeded and the
\* error of the last failed close otherwise.
C23_CloseIsBestEffort ==
    pc = "closed" =>
        /\ Len(closeLog) = Cardinality(DOMAIN servers)
        /\ { closeLog[i].name : i \in DOMAIN closeLog } = DOMAIN servers
        /\ IF \A i \in DOMAIN closeLog : closeLog[i].ok
           THEN closeErr = NoErr
           ELSE closeErr = CloseError(closeLog[LastFailed].name)

C23_Witness ==
    /\ pc = "closed"
    /\ Len(closeLog) = 2
    /\ ~closeLog[1].ok
    /\ ~closeLog[2].ok
    /\ closeErr = CloseError(closeLog[2].name)

----------------------------------------------------------------------------
(* The HTTP handlers *)

\* C24: the readiness probe answers ready (200) exactly when the pool holds at
\* least one server at the time of the request, and not ready (503) when it
\* holds none.
C24_ReadyIffPoolNonEmpty ==
    pc = "probed" =>
        /\ (httpStatus = 200 /\ httpBody.text = "ready") <=> GetServerCount(servers) > 0
        /\ (httpStatus = 503 /\ httpBody.text = "not ready") <=> GetServerCount(servers) = 0

C24_Witness ==
    /\ pc = "probed"
    /\ servers = NoMap
    /\ Len(addLog) = Len(ServerConfigs)
    /\ httpStatus = 503

\* C25: a run-agent or stream-agent request whose body is not JSON or has no
\* inputs is answered 400 and nothing of the loop is executed for it: no tool
\* listing, no model call, no tool invocation.
C25_BadBodyIsRejectedBeforeTheLoop ==
    /\ pc = "rejected" =>
          /\ httpStatus = 400
          /\ catalogs = <<>>
          /\ listing = NoListing
          /\ listOrder = <<>>
          /\ messages = <<>>
          /\ modelCalls = 0
          /\ lastReq = Nil
          /\ toolLog = <<>>
    /\ (endpoint \in {"run", "stream"} /\ (~reqBody.json \/ reqBody.inputs = ""))
          => pc = "rejected"

C25_Witness ==
    /\ pc = "rejected"
    /\ endpoint = "stream"
    /\ reqBody.json
    /\ reqBody.inputs = ""
    /\ servers # NoMap
    /\ httpStatus = 400

\* C26: whenever Run returns an error to the run-agent or stream-agent
\* handler, the response is 500, its body carries the message of that error and
\* the path of the request, and no completion and no content chunk is sent.
C26_RunErrorIsReportedWithPath ==
    (pc = "done" /\ endpoint \in {"run", "stream"} /\ result.err # NoErr) =>
        /\ httpStatus = 500
        /\ httpBody.err # NoErr
        /\ (httpBody.err = result.err \/ httpBody.err.cause = result.err)
        /\ httpBody.path = reqPath
        /\ httpBody.resp = Nil
        /\ httpBody.chunks = <<>>

\* the chunks written to the response, joined in the order they were written
RECURSIVE Concat(_)
Concat(chunks) == IF Len(chunks) = 0 THEN "" ELSE Head(chunks) \o Concat(Tail(chunks))

\* C27: the stream-agent endpoint writes nothing before the loop has finished;
\* on a successful run the chunks it writes, joined in order, are the content
\* of the final assistant message (the answer, or the placeholder when the
\* budget ran out), and nothing else is sent.
C27_StreamRelaysFinalContentOnly ==
    endpoint = "stream" =>
        /\ pc \in {"model", "model_wait", "tools", "tool_wait"} =>
              (httpStatus = 0 /\ httpBody = NoBody)
        /\ (pc = "done" /\ result.err = NoErr) =>
              /\ httpStatus = 200
              /\ httpBody.kind = "stream"
              /\ Concat(httpBody.chunks) = result.resp.choices[1].message.content
              /\ httpBody.text = ""
              /\ httpBody.resp = Nil

C27_Witness ==
    /\ endpoint = "stream"
    /\ pc = "done"
    /\ result.err = NoErr
    /\ toolLog # <<>>
    /\ Len(httpBody.chunks) > 1
    /\ Concat(httpBody.chunks) = MaxIterationsContent

----------------------------------------------------------------------------
(* Concurrency *)

\* C29: the pool's connection map is written only at startup, before the
\* server accepts its first request: every AddServer happens there, and from
\* then on the handlers only read the map.
C29_PoolWrittenOnlyAtStartup ==
    [][(servers' # servers \/ nextConn' # nextConn \/ addLog' # addLog)
          => (pc = "startup" /\ pc' = "startup")]_vars

C29_Witness ==
    /\ pc = "tool_wait"
    /\ Len(addLog) = Len(ServerConfigs)
    /\ DOMAIN servers = Range(ServerConfigs)
    /\ toolLog[Len(toolLog)].server \in DOMAIN servers

----------------------------------------------------------------------------
(* The iteration budget *)

\* C30: the iteration budget of an agent is at least 1 after any sequence of
\* NewAgent and SetMaxIterations calls, and a run that returns the exhausted
\* response has made at least one model call.
C30_BudgetAtLeastOne ==
    /\ agent.maxIterations >= 1
    /\ (pc = "done" /\ result.err = NoErr /\ IsExhaustedResponse(result.resp))
          => modelCalls >= 1

\* C28: with two requests served at once, each run owns its conversation, its
\* iteration counter, its tool list and its routing map: no step of one run
\* changes anything of the other.  The steps of the first run are the steps it
\* takes alone and read nothing of the second, so its model calls, tool
\* invocations and result are those of the run on its own.
C28_RunsAreIsolated == [][UNCHANGED soloVars \/ UNCHANGED other]_vars

C28_Witness ==
    /\ pc = "tool_wait"
    /\ other.pc = "tools"
    /\ toolServerMap # NoMap
    /\ other.toolServerMap = NoMap

----------------------------------------------------------------------------
(* The loop *)

\* C31: the budget is checked only after all tool calls of an iteration have
\* been processed: a run that ends exhausted after the model asked for tools in
\* its last iteration has invoked every one of these calls, in order and with
\* success, and a run whose last tool call failed ends with an error and no
\* response.
C31_BudgetCheckedAfterToolCalls ==
    /\ (pc = "done" /\ result.err = NoErr /\ curResp # Nil /\ IsExhaustedResponse(result.resp)) =>
          LET tcs == curResp.choices[1].message.tool_calls
              base == Len(toolLog) - Len(tcs)
          IN /\ iteration = agent.maxIterations + 1
             /\ modelCalls = agent.maxIterations
             /\ Len(tcs) >= 1
             /\ base >= 0
             /\ \A k \in 1..Len(tcs) :
                   /\ toolLog[base + k].call = tcs[k]
                   /\ toolLog[base + k].iteration = agent.maxIterations
                   /\ toolLog[base + k].index = k
                   /\ Succeeded(base + k)
    /\ (pc = "done" /\ toolLog # <<>> /\ ~Succeeded(Len(toolLog))) =>
          (result.err # NoErr /\ result.resp = Nil)

C31_Witness ==
    /\ pc = "done"
    /\ agent.maxIterations = 1
    /\ iteration = 2
    /\ IsExhaustedResponse(result.resp)
    /\ Len(curResp.choices[1].message.tool_calls) = 2
    /\ Len(toolLog) = 2

\* the names of the tools offered to the model
OfferedNames == { agent.tools[i].name : i \in DOMAIN agent.tools }

\* C32: for a run started by a handler the tools offered to the model and the
\* routing map come from one catalog, listed once before the first model call:
\* every offered name is routable, to a server registered in the pool, and a
\* tool call that names an offered tool is always handed to a backend.
C32_OfferedToolsAreRoutable ==
    Listed =>
        /\ Len(catalogs) = 1
        /\ agent.tools = [i \in DOMAIN LastCatalog |->
                             Tool(LastCatalog[i].Tool.name, LastCatalog[i].Tool.description)]
        /\ lastReq # Nil => lastReq.body.Tools = agent.tools
        /\ \A name \in OfferedNames :
              LET route == GetServerForTool(toolServerMap, name) IN
              /\ route.exists
              /\ route.serverName \in DOMAIN servers
              /\ \E i \in DOMAIN LastCatalog : /\ LastCatalog[i].Tool.name = name
                                                 /\ LastCatalog[i].ServerName = route.serverName
        /\ \A k \in DOMAIN toolLog :
              (toolLog[k].call.name \in OfferedNames /\ toolLog[k].looked)
                  => (toolLog[k].forwarded /\ toolLog[k].server \in DOMAIN servers)

C32_Witness ==
    /\ pc = "tool_wait"
    /\ DOMAIN servers = Range(ServerConfigs)
    /\ OfferedNames = ToolNames
    /\ toolLog[Len(toolLog)].call.name = "get_weather"
    /\ toolLog[Len(toolLog)].forwarded
    /\ toolLog[Len(toolLog)].server = ""

\* C33: Run returns either a response and no error or an error and no
\* response, never both and never neither; a response returned without error
\* has at least one choice, be it a completion of the model or the
\* placeholder, so the stream handler never answers "No response generated".
C33_RunReturnsResponseOrError ==
    (pc = "done" /\ endpoint \in {"run", "stream"}) =>
        /\ (result.resp = Nil) <=> (result.err # NoErr)
        /\ result.err = NoErr => Len(result.resp.choices) >= 1
        /\ httpBody.text # "No response generated"
        /\ (endpoint = "stream" /\ result.err = NoErr) => httpBody.kind = "stream"

C33_Witness ==
    /\ pc = "done"
    /\ endpoint = "stream"
    /\ curResp # Nil
    /\ Len(curResp.choices) = 0
    /\ result.resp = Nil
    /\ result.err = NoChoicesError(1)

\* the run is inside the loop of Run
Running == pc \in {"model", "model_wait", "tools", "tool_wait"}

\* C34: when every model call and every tool call returns, a run that was
\* started ends, and it never makes more model calls than its budget, whatever
\* the model answers, a model that asks for tools at every iteration included.
C34_RunTerminatesWithinBudget ==
    /\ [](modelCalls <= agent.maxIterations)
    /\ (Running ~> pc = "done")

C34_Witness ==
    /\ pc = "done"
    /\ agent.maxIterations = DefaultMaxIterations
    /\ modelCalls = DefaultMaxIterations
    /\ Len(toolLog) >= DefaultMaxIterations
    /\ result.err = NoErr
    /\ IsExhaustedResponse(result.resp)

----------------------------------------------------------------------------
(* The pool and the registry, continued *)

\* C35: every connection AddServer opened is still held by the pool, and
\* Close attempts to close it, for any sequence of registrations, two under
\* the same name included.
C35_OpenedConnectionsAreHeld ==
    \A i \in DOMAIN addLog :
        addLog[i].opened =>
            /\ \E n \in DOMAIN servers : servers[n] = addLog[i].conn
            /\ pc = "closed" =>
                  \E k \in DOMAIN closeLog : servers[closeLog[k].name] = addLog[i].conn

\* C36: the build returns one tool per catalog entry, in catalog order, with
\* name and description copied as they are, and the names in the returned
\* list are pairwise distinct, for every catalog, one in which two servers
\* expose the same tool name included.
C36_ToolListMirrorsCatalogWithDistinctNames ==
    catalogs # <<>> =>
        /\ Len(agent.tools) = Len(LastCatalog)
        /\ \A i \in DOMAIN LastCatalog :
              /\ agent.tools[i].name = LastCatalog[i].Tool.name
              /\ agent.tools[i].description = LastCatalog[i].Tool.description
        /\ \A i, j \in DOMAIN agent.tools :
              i # j => agent.tools[i].name # agent.tools[j].name

----------------------------------------------------------------------------
(* The conversation *)

\* the tool messages of the iteration whose completion is curResp: one per
\* tool call, in order, holding the serialized answer of that call
ToolMessagesOfIteration ==
    LET tcs == curResp.choices[1].message.tool_calls
        base == Len(toolLog) - Len(tcs)
    IN [k \in 1..Len(tcs) |->
           ChatMessage("tool", SerializedContent(toolLog[base + k].answer.content), <<>>, tcs[k].id)]

\* C37: the conversation is append-only with a fixed prefix: every request
\* sent to the model starts with the system prompt and the user input, each
\* step only appends to the conversation, and the conversation of a request is
\* that of the request before it followed by the assistant message of that
\* iteration and its tool messages.
C37_ConversationIsAppendOnly ==
    /\ [](lastReq # Nil =>
            /\ Len(lastReq.body.Messages) >= 2
            /\ lastReq.body.Messages[1] = ChatMessage("system", agent.systemPrompt, <<>>, "")
            /\ lastReq.body.Messages[2] = ChatMessage("user", "2+2?", <<>>, ""))
    /\ [][/\ Len(messages') >= Len(messages)
          /\ SubSeq(messages', 1, Len(messages)) = messages
          /\ lastReq' # lastReq =>
                /\ lastReq'.body.Messages = messages
                /\ IF lastReq = Nil
                   THEN Len(messages) = 2
                   ELSE messages = lastReq.body.Messages
                                      \o <<curResp.choices[1].message>>
                                      \o ToolMessagesOfIteration]_vars

C37_Witness ==
    /\ pc = "model_wait"
    /\ modelCalls = 2
    /\ Len(lastReq.body.Messages) = 5
    /\ lastReq.body.Messages[3].role = "assistant"
    /\ lastReq.body.Messages[4].role = "tool"
    /\ lastReq.body.Messages[5].role = "tool"

----------------------------------------------------------------------------
(* Frame conditions *)

\* the agent the handler of the second request builds from its body
SecondAgentAsBuilt ==
    SetTools(NewAgent(Config("demo-agent", RouterDefaultModel, RouterSystemPrompt, 1)),
             other.agent.tools)

\* C38: Run and GetServerForTool leave the agent's configuration and the
\* routing map as they are: budget, system prompt, tool list and every entry of
\* the map are the same at the end of a run as at its start, whatever its
\* outcome, and the routing map is changed only when a handler builds it.
C38_RunLeavesConfigurationAlone ==
    /\ [](other.pc \notin {"serving", "listing"} => other.agent = SecondAgentAsBuilt)
    /\ [][/\ Running => (agent' = agent /\ toolServerMap' = toolServerMap)
          /\ other.pc \in {"model", "model_wait", "tools", "tool_wait"} =>
                (other'.agent = other.agent /\ other'.toolServerMap = other.toolServerMap)
          /\ toolServerMap' # toolServerMap =>
                (pc \in {"serving", "listing"} /\ pc' \notin {"serving", "listing"})
          /\ other'.toolServerMap # other.toolServerMap =>
                other.pc \in {"serving", "listing"}]_vars

C38_Witness ==
    /\ pc = "done"
    /\ other.pc = "done"
    /\ result.err # NoErr
    /\ other.result.err = NoErr
    /\ IsExhaustedResponse(other.result.resp)
    /\ other.agent.maxIterations = 1
    /\ other.toolServerMap # NoMap

----------------------------------------------------------------------------
(* The model gateway *)

\* the request was answered with a response whose body could be read
Answered == other.transport /\ other.readable

\* C39: a call of the gateway client issues one request; it returns a
\* completion exactly when the transport succeeded, the status is 200 and the
\* body decodes, and otherwise no completion and the matching error: a
\* transport error, an upstream error that carries the status and the message
\* for another status, a decode error for a 200 body that does not parse.  The
\* simple completion fails on zero choices and otherwise returns the text of
\* the first choice.
C39_GatewayErrorsMatchTheFailure ==
    /\ pc \in {"completed", "simple"} =>
          /\ modelCalls = 1
          /\ ~Answered => (result.err # NoErr /\ result.err.msg \in
                              {"failed to create chat completion", "failed to read response body"})
          /\ (Answered /\ other.status # 200) =>
                /\ result.err # NoErr
                /\ result.err.status = other.status
                /\ result.err.text = IF other.body.json THEN other.body.message
                                                         ELSE other.body.raw
          /\ (Answered /\ other.status = 200 /\ ~other.body.json) =>
                (result.err # NoErr /\ result.err.msg = "failed to unmarshal response")
    /\ pc = "completed" =>
          /\ result.resp # Nil <=> (Answered /\ other.status = 200 /\ other.body.json)
          /\ result.resp # Nil <=> result.err = NoErr
          /\ result.resp # Nil => result.resp.choices = other.body.choices
    /\ pc = "simple" =>
          /\ result.err = NoErr <=>
                (Answered /\ other.status = 200 /\ other.body.json /\ Len(other.body.choices) > 0)
          /\ result.err = NoErr => result.text = other.body.choices[1].message.content
          /\ result.err # NoErr => result.text = ""
          /\ (Answered /\ other.status = 200 /\ other.body.json /\ Len(other.body.choices) = 0)
                => result.err.msg = "no choices returned in response"

====
